---- MODULE Spec2Model ----
(***************************************************************************)
(* Structural analysis of relevance expressions in fixlet_debugger.py:     *)
(* the per-cursor highlighter (it/its/them referents, if/then/else groups, *)
(* bracket pairs) and the expand/compact reformatter.                      *)
(*                                                                         *)
(* A text is a sequence of one-character strings.  Offsets are Python's    *)
(* 0-based offsets: the character at offset i is text[i + 1].  An optional *)
(* value (Python's None or a value) is a sequence of length 0 or 1.        *)
(***************************************************************************)
EXTENDS Integers, Sequences, FiniteSets, TLC

VARIABLES
    text,        \* the active input pane's text (toPlainText)
    pos,         \* its cursor offset (textCursor().position())
    selections,  \* its extra selections, as highlight spans
    propagated,  \* an exception left a slot of the window
    is_dirty,    \* the active tab's unsaved-changes flag
    worker,               \* self.worker: <<>> (None) or <<worker_id>>
    worker_counter,       \* self.worker_counter
    threads,              \* the QnAWorker threads started so far, by worker_id
    events,               \* queued signal calls waiting in the main thread's event loop
    pending_queries,      \* self.pending_queries: (line_num, query) pairs
    current_query_index,  \* self.current_query_index
    current_line_num,     \* self.current_line_num
    evaluating_tab,       \* self.evaluating_tab: "none", or the tab's type "qna" / "sc"
    active_tab,           \* the type of the visible tab
    doc,                  \* the lines of the QnA tab's input pane
    output_pane,          \* what the Single Clause tab's output pane shows
    evaluate_btn          \* the Evaluate button: enabled flag and label

editvars == <<text, pos, selections, propagated, is_dirty>>

evalvars ==
    <<worker, worker_counter, threads, events, pending_queries, current_query_index,
      current_line_num, evaluating_tab, doc, output_pane, evaluate_btn>>

vars == <<editvars, evalvars, active_tab>>

(***************************************************************************)
(* Bounds of the model.                                                    *)
(***************************************************************************)
MaxBrLen == 4
MaxLex == 3
MaxOffLex == 3
MaxKwLex == 5
MaxFrag == 2
MaxNest == 1
MaxRefLex == 4
MaxFmtLex == 3

MaxWorkers == 3

MaxResultLines == 2

MaxDocLines == 3

(***************************************************************************)
(* Python string primitives.                                               *)
(***************************************************************************)
\* text[i] for an index Python accepts (negative indices count from the end)
PyIndexOk(s, i) == -Len(s) <= i /\ i < Len(s)

PyIndex(s, i) == IF i >= 0 THEN s[i + 1] ELSE s[Len(s) + i + 1]

\* text[a:b] for 0 <= a, b <= len(text)
Slice(s, a, b) == IF a < b THEN SubSeq(s, a + 1, b) ELSE <<>>

\* `c in s` for a string c of length 0 or 1: the empty string is a substring
\* of every string
StrContainsChar(s, c) == \E k \in 1..Len(s) : s[k] = c

\* mutant: membership in a set of characters, which the empty string fails
StrContains_charset(s, c) == StrContainsChar(s, c)

StrContains(s, c) == c = "" \/ StrContainsChar(s, c)

(***************************************************************************)
(* Highlight spans (QTextEdit.ExtraSelection: a cursor range and a format) *)
(***************************************************************************)
Matched == "matched"
Unmatched == "unmatched"

Span(s, e, c) == [start |-> s, end |-> e, cls |-> c]

(***************************************************************************)
(* Bracket matcher                                                         *)
(***************************************************************************)
open_brackets == <<"(", "[", "{">>
close_brackets == <<")", "]", "}">>

bracket_pairs(c) == CASE c = "(" -> ")" [] c = "[" -> "]" [] c = "{" -> "}"

reverse_pairs(c) == CASE c = ")" -> "(" [] c = "]" -> "[" [] c = "}" -> "{"

\* mutant: the forward scan does not count nested openers of the same kind
RECURSIVE ScanForward_nonest(_, _, _, _, _)
ScanForward_nonest(s, search_pos, char, target, count) ==
    IF ~(search_pos < Len(s)) THEN <<>>
    ELSE IF PyIndex(s, search_pos) = target THEN <<search_pos>>
    ELSE ScanForward_nonest(s, search_pos + 1, char, target, count)

RECURSIVE ScanForward(_, _, _, _, _)
ScanForward(s, search_pos, char, target, count) ==
    IF ~(search_pos < Len(s)) THEN <<>>
    ELSE LET c == PyIndex(s, search_pos) IN
         IF c = char THEN ScanForward(s, search_pos + 1, char, target, count + 1)
         ELSE IF c = target
              THEN IF count - 1 = 0 THEN <<search_pos>>
                   ELSE ScanForward(s, search_pos + 1, char, target, count - 1)
              ELSE ScanForward(s, search_pos + 1, char, target, count)

\* mutant: the backward scan accepts an opener of any kind as the target
RECURSIVE ScanBackward_anykind(_, _, _, _, _)
ScanBackward_anykind(s, search_pos, char, target, count) ==
    IF ~(search_pos >= 0) THEN <<>>
    ELSE LET c == PyIndex(s, search_pos) IN
         IF c = char THEN ScanBackward_anykind(s, search_pos - 1, char, target, count + 1)
         ELSE IF c \in {"(", "[", "{"}
              THEN IF count - 1 = 0 THEN <<search_pos>>
                   ELSE ScanBackward_anykind(s, search_pos - 1, char, target, count - 1)
              ELSE ScanBackward_anykind(s, search_pos - 1, char, target, count)

RECURSIVE ScanBackward(_, _, _, _, _)
ScanBackward(s, search_pos, char, target, count) ==
    IF ~(search_pos >= 0) THEN <<>>
    ELSE LET c == PyIndex(s, search_pos) IN
         IF c = char THEN ScanBackward(s, search_pos - 1, char, target, count + 1)
         ELSE IF c = target
              THEN IF count - 1 = 0 THEN <<search_pos>>
                   ELSE ScanBackward(s, search_pos - 1, char, target, count - 1)
              ELSE ScanBackward(s, search_pos - 1, char, target, count)

find_matching_bracket(s, p, char) ==
    IF char = "" \/ ~StrContains(open_brackets \o close_brackets, char) THEN <<>>
    ELSE IF StrContains(open_brackets, char)
         THEN ScanForward(s, p + 1, char, bracket_pairs(char), 1)
         ELSE ScanBackward(s, p - 1, char, reverse_pairs(char), 1)

\* the two conditional reads of lines 1240-1241; either may raise IndexError
BracketReadRaises(s, p) ==
    \/ p < Len(s) /\ ~PyIndexOk(s, p)
    \/ p > 0 /\ ~PyIndexOk(s, p - 1)

get_cursor_bracket_selections(s, p) ==
    LET char_at == IF p < Len(s) THEN PyIndex(s, p) ELSE ""
        char_before == IF p > 0 THEN PyIndex(s, p - 1) ELSE ""
        brackets == open_brackets \o close_brackets
        chosen == IF StrContains(brackets, char_before) THEN <<p - 1, char_before>>
                  ELSE IF StrContains(brackets, char_at) THEN <<p, char_at>>
                  ELSE <<>>
    IN  IF chosen = <<>> \/ chosen[2] = "" THEN <<>>
        ELSE LET check_pos == chosen[1]
                 check_char == chosen[2]
                 match_pos == find_matching_bracket(s, check_pos, check_char)
             IN  IF match_pos # <<>>
                 THEN << Span(check_pos, check_pos + 1, Matched),
                         Span(match_pos[1], match_pos[1] + 1, Matched) >>
                 ELSE << Span(check_pos, check_pos + 1, Unmatched) >>

(***************************************************************************)
(* Regular-expression primitives: \w, \s, \b and re.IGNORECASE.            *)
(***************************************************************************)
LowerLetters == {"a", "b", "c", "d", "e", "f", "g", "h", "i", "j", "k", "l", "m",
                 "n", "o", "p", "q", "r", "s", "t", "u", "v", "w", "x", "y", "z"}

LowerOf == ("A" :> "a") @@ ("B" :> "b") @@ ("C" :> "c") @@ ("D" :> "d") @@
           ("E" :> "e") @@ ("F" :> "f") @@ ("G" :> "g") @@ ("H" :> "h") @@
           ("I" :> "i") @@ ("J" :> "j") @@ ("K" :> "k") @@ ("L" :> "l") @@
           ("M" :> "m") @@ ("N" :> "n") @@ ("O" :> "o") @@ ("P" :> "p") @@
           ("Q" :> "q") @@ ("R" :> "r") @@ ("S" :> "s") @@ ("T" :> "t") @@
           ("U" :> "u") @@ ("V" :> "v") @@ ("W" :> "w") @@ ("X" :> "x") @@
           ("Y" :> "y") @@ ("Z" :> "z")

Digits == {"0", "1", "2", "3", "4", "5", "6", "7", "8", "9"}

\* str.lower() on one character
Lower(c) == IF c \in DOMAIN LowerOf THEN LowerOf[c] ELSE c

\* \w
IsWordChar(c) == c \in LowerLetters \/ c \in DOMAIN LowerOf \/ c \in Digits \/ c = "_"

\* \s, and the characters str.strip() and str.split() remove
IsSpace(c) == c \in {" ", "\t", "\n", "\r", "\f"}

\* the literal word w (lower case), compared case-insensitively at offset i
LiteralAt(s, i, w) ==
    /\ i >= 0
    /\ i + Len(w) <= Len(s)
    /\ \A k \in 1..Len(w) : Lower(s[i + k]) = w[k]

\* \bw\b at offset i, for a word w made of word characters
WholeWordAt(s, i, w) ==
    /\ LiteralAt(s, i, w)
    /\ (i = 0 \/ ~IsWordChar(s[i]))
    /\ (i + Len(w) = Len(s) \/ ~IsWordChar(s[i + Len(w) + 1]))

\* re.finditer(r'\b(w1|w2|...)\b', text, re.IGNORECASE) as the list of
\* {'word': match.group().lower(), 'start': ..., 'end': ...}
RECURSIVE FindWordsFrom(_, _, _)
FindWordsFrom(s, i, words) ==
    IF i >= Len(s) THEN <<>>
    ELSE IF \E w \in words : WholeWordAt(s, i, w)
         THEN LET w == CHOOSE w \in words : WholeWordAt(s, i, w)
              IN  <<[word |-> w, start |-> i, end |-> i + Len(w)]>>
                      \o FindWordsFrom(s, i + Len(w), words)
         ELSE FindWordsFrom(s, i + 1, words)

W_if == <<"i", "f">>
W_then == <<"t", "h", "e", "n">>
W_else == <<"e", "l", "s", "e">>
W_it == <<"i", "t">>
W_its == <<"i", "t", "s">>
W_them == <<"t", "h", "e", "m">>
W_whose == <<"w", "h", "o", "s", "e">>
W_of == <<"o", "f">>

it_keywords(s) == FindWordsFrom(s, 0, {W_it, W_its, W_them})

keywords(s) == FindWordsFrom(s, 0, {W_if, W_then, W_else})

\* the first keyword occurrence with start <= pos <= end, or None
RECURSIVE KeywordAtCursor(_, _, _)
KeywordAtCursor(kws, p, k) ==
    IF k > Len(kws) THEN <<>>
    ELSE IF kws[k].start <= p /\ p <= kws[k].end THEN <<kws[k]>>
         ELSE KeywordAtCursor(kws, p, k + 1)

\* first offset >= i that holds no whitespace character (or len)
RECURSIVE SkipSpaceForward(_, _)
SkipSpaceForward(s, i) ==
    IF i < Len(s) /\ IsSpace(s[i + 1]) THEN SkipSpaceForward(s, i + 1) ELSE i

\* str.rstrip() of s[:e]: the end offset of the stripped prefix
RECURSIVE RStripEnd(_, _)
RStripEnd(s, e) ==
    IF e > 0 /\ IsSpace(s[e]) THEN RStripEnd(s, e - 1) ELSE e

(***************************************************************************)
(* Referent resolver                                                       *)
(***************************************************************************)
\* re.finditer(r'\bwhose\s*\(', text, re.IGNORECASE): [start, end) of each match
RECURSIVE whose_matches_from(_, _)
whose_matches_from(s, i) ==
    IF i >= Len(s) THEN <<>>
    ELSE LET after == SkipSpaceForward(s, i + Len(W_whose))
             hit == /\ LiteralAt(s, i, W_whose)
                    /\ (i = 0 \/ ~IsWordChar(s[i]))
                    /\ after < Len(s)
                    /\ s[after + 1] = "("
         IN  IF hit THEN <<[start |-> i, end |-> after + 1]>>
                             \o whose_matches_from(s, after + 1)
             ELSE whose_matches_from(s, i + 1)

whose_matches(s) == whose_matches_from(s, 0)

\* the closing paren of the clause opened just before whose_end, or None
RECURSIVE whose_paren_end(_, _, _)
whose_paren_end(s, i, paren_depth) ==
    IF i >= Len(s) THEN <<>>
    ELSE IF s[i + 1] = "(" THEN whose_paren_end(s, i + 1, paren_depth + 1)
    ELSE IF s[i + 1] = ")"
         THEN IF paren_depth - 1 = 0 THEN <<i>>
              ELSE whose_paren_end(s, i + 1, paren_depth - 1)
    ELSE whose_paren_end(s, i + 1, paren_depth)

\* mutant: the last clause that contains it_pos, the innermost of nested ones
RECURSIVE containing_whose_last(_, _, _, _)
containing_whose_last(s, it_pos, ms, k) ==
    IF k > Len(ms) THEN <<>>
    ELSE LET whose_end == ms[k].end
             paren_end == whose_paren_end(s, whose_end, 1)
             later == containing_whose_last(s, it_pos, ms, k + 1)
         IN  IF later # <<>> THEN later
             ELSE IF paren_end # <<>> /\ whose_end <= it_pos /\ it_pos <= paren_end[1]
                  THEN <<ms[k]>>
             ELSE IF paren_end = <<>> /\ it_pos >= whose_end
                  THEN <<ms[k]>>
                  ELSE <<>>

\* the first `whose (` clause that contains it_pos, or None
RECURSIVE containing_whose(_, _, _, _)
containing_whose(s, it_pos, ms, k) ==
    IF k > Len(ms) THEN <<>>
    ELSE LET whose_end == ms[k].end
             paren_end == whose_paren_end(s, whose_end, 1)
         IN  IF paren_end # <<>> /\ whose_end <= it_pos /\ it_pos <= paren_end[1]
             THEN <<ms[k]>>
             ELSE IF paren_end = <<>> /\ it_pos >= whose_end
                  THEN <<ms[k]>>
                  ELSE containing_whose(s, it_pos, ms, k + 1)

\* skip ' \t\n' backward from whose_start
RECURSIVE whose_expr_end(_, _)
whose_expr_end(s, expr_end) ==
    IF expr_end > 0 /\ s[expr_end] \in {" ", "\t", "\n"}
    THEN whose_expr_end(s, expr_end - 1)
    ELSE expr_end

\* the backward scan for the '(' of a parenthesized referent: the values of
\* expr_start and paren_depth when the while loop ends
RECURSIVE whose_paren_start(_, _, _)
whose_paren_start(s, expr_start, paren_depth) ==
    IF expr_start >= 0 /\ paren_depth > 0
    THEN IF s[expr_start + 1] = ")"
         THEN whose_paren_start(s, expr_start - 1, paren_depth + 1)
         ELSE IF s[expr_start + 1] = "("
              THEN whose_paren_start(s, expr_start - 1, paren_depth - 1)
              ELSE whose_paren_start(s, expr_start - 1, paren_depth)
    ELSE [expr_start |-> expr_start, paren_depth |-> paren_depth]

WordStopChars == {" ", "\t", "\n", "(", ")", "[", "]", "{", "}", ",", ":", ";"}

\* mutant: the preceding word stops at whitespace only
RECURSIVE whose_word_start_blank(_, _)
whose_word_start_blank(s, word_start) ==
    IF word_start > 0 /\ s[word_start] \notin {" ", "\t", "\n"}
    THEN whose_word_start_blank(s, word_start - 1)
    ELSE word_start

RECURSIVE whose_word_start(_, _)
whose_word_start(s, word_start) ==
    IF word_start > 0 /\ s[word_start] \notin WordStopChars
    THEN whose_word_start(s, word_start - 1)
    ELSE word_start

\* lines 1447-1481: the referent that ends at expr_end, just before `whose`
whose_referent(s, expr_end) ==
    IF expr_end = 0 THEN <<>>
    ELSE IF s[expr_end] = ")"
         THEN LET r == whose_paren_start(s, expr_end - 2, 1)
                  expr_start == r.expr_start + 1
              IN  IF r.paren_depth = 0 /\ expr_start >= 0
                  THEN <<[start |-> expr_start, end |-> expr_end]>>
                  ELSE <<>>
         ELSE LET word_start == whose_word_start(s, expr_end)
              IN  IF word_start < expr_end
                  THEN <<[start |-> word_start, end |-> expr_end]>>
                  ELSE <<>>

\* `if not containing_whose: return None`, then the referent before it
referent_before(s, cw) ==
    IF cw = <<>> THEN <<>> ELSE whose_referent(s, whose_expr_end(s, cw[1].start))

\* an empty list of matches has no containing clause
find_whose_context(s, it_pos) ==
    referent_before(s, containing_whose(s, it_pos, whose_matches(s), 1))

\* the enclosing '(' found scanning backward from it_pos - 1, or None
RECURSIVE of_it_paren_start(_, _, _)
of_it_paren_start(s, i, paren_depth) ==
    IF i < 0 THEN <<>>
    ELSE IF s[i + 1] = ")" THEN of_it_paren_start(s, i - 1, paren_depth + 1)
    ELSE IF s[i + 1] = "("
         THEN IF paren_depth = 0 THEN <<i>>
              ELSE of_it_paren_start(s, i - 1, paren_depth - 1)
    ELSE of_it_paren_start(s, i - 1, paren_depth)

\* the closing paren of the group opened at paren_start, or None
RECURSIVE of_it_paren_end(_, _, _)
of_it_paren_end(s, i, paren_depth) ==
    IF i >= Len(s) THEN <<>>
    ELSE IF s[i + 1] = "(" THEN of_it_paren_end(s, i + 1, paren_depth + 1)
    ELSE IF s[i + 1] = ")"
         THEN IF paren_depth - 1 = 0 THEN <<i>>
              ELSE of_it_paren_end(s, i + 1, paren_depth - 1)
    ELSE of_it_paren_end(s, i + 1, paren_depth)

\* the end of the object: a newline, the end of text or a ')' at depth 0
RECURSIVE of_it_obj_end(_, _, _)
of_it_obj_end(s, obj_end, paren_depth) ==
    IF obj_end < Len(s)
    THEN LET ch == s[obj_end + 1] IN
         IF ch = "(" THEN of_it_obj_end(s, obj_end + 1, paren_depth + 1)
         ELSE IF ch = ")"
              THEN IF paren_depth = 0 THEN obj_end
                   ELSE of_it_obj_end(s, obj_end + 1, paren_depth - 1)
         ELSE IF ch = "\n" THEN obj_end
         ELSE of_it_obj_end(s, obj_end + 1, paren_depth)
    ELSE obj_end

\* trim trailing ' \t'
RECURSIVE of_it_trim(_, _, _)
of_it_trim(s, obj_end, obj_start) ==
    IF obj_end > obj_start /\ s[obj_end] \in {" ", "\t"}
    THEN of_it_trim(s, obj_end - 1, obj_start)
    ELSE obj_end

\* lines 1536-1560: the object that starts at obj_start_absolute
of_it_object(s, obj_start_absolute) ==
    LET obj_end == of_it_trim(s, of_it_obj_end(s, obj_start_absolute, 0),
                              obj_start_absolute)
    IN  IF obj_end > obj_start_absolute
        THEN <<[start |-> obj_start_absolute, end |-> obj_end]>>
        ELSE <<>>

\* lines 1525-1534: after_paren, which begins at after_start, must start with
\* 'of '; the object begins after `of\s+`
of_it_after_paren(s, after_start) ==
    IF ~(/\ LiteralAt(s, after_start, W_of)
         /\ after_start + 2 < Len(s)
         /\ s[after_start + 3] = " ")
    THEN <<>>
    ELSE of_it_object(s, SkipSpaceForward(s, after_start + 2))

\* lines 1521-1526: `if paren_end is None: return None`, then lstrip
of_it_after_group(s, paren_end) ==
    IF paren_end = <<>> THEN <<>>
    ELSE of_it_after_paren(s, SkipSpaceForward(s, paren_end[1] + 1))

\* lines 1505-1519: `if paren_start is None: return None`, then the closing paren
of_it_group(s, paren_start) ==
    IF paren_start = <<>> THEN <<>>
    ELSE of_it_after_group(s, of_it_paren_end(s, paren_start[1] + 1, 1))

\* mutant: the pronoun need not follow `of`
follows_of_any(s, before_end) == before_end >= 0

\* text[:it_pos].rstrip().lower().endswith(' of'), for the end of the rstrip
follows_of(s, before_end) ==
    /\ before_end >= 3
    /\ s[before_end - 2] = " "
    /\ LiteralAt(s, before_end - 2, W_of)

find_of_it_context(s, it_pos) ==
    IF ~follows_of(s, RStripEnd(s, it_pos)) THEN <<>>
    ELSE of_it_group(s, of_it_paren_start(s, it_pos - 1, 0))

\* mutant: the of-it match wins when both idioms match
first_match_ofit(whose_match, of_it_match) ==
    IF of_it_match # <<>> THEN of_it_match ELSE whose_match

\* `if whose_match: return whose_match`, else the of-it match or None
first_match(whose_match, of_it_match) ==
    IF whose_match # <<>> THEN whose_match ELSE of_it_match

find_it_referent(s, it_keyword) ==
    first_match(find_whose_context(s, it_keyword.start),
                find_of_it_context(s, it_keyword.start))

\* mutant: only the start of the other referent is compared
same_referent_start(other_ref, referent) ==
    /\ other_ref # <<>>
    /\ other_ref[1].start = referent.start

\* mutant: every other pronoun counts as a sibling
same_referent_all(other_ref, referent) == TRUE

\* the sibling loop of lines 1361-1371
\* `other_ref and other_ref['start'] == referent['start'] and ...`
same_referent(other_ref, referent) ==
    /\ other_ref # <<>>
    /\ other_ref[1].start = referent.start
    /\ other_ref[1].end = referent.end

RECURSIVE other_it_selections(_, _, _, _, _)
other_it_selections(s, its, current_it, referent, k) ==
    IF k > Len(its) THEN <<>>
    ELSE (IF /\ its[k].start # current_it.start
             /\ same_referent(find_it_referent(s, its[k]), referent)
          THEN <<Span(its[k].start, its[k].end, Matched)>>
          ELSE <<>>)
             \o other_it_selections(s, its, current_it, referent, k + 1)

\* None is the empty sequence: every list the function returns is non-empty
it_selections_for(s, its, current_it, referent) ==
    IF referent # <<>>
    THEN << Span(current_it.start, current_it.end, Matched),
            Span(referent[1].start, referent[1].end, Matched) >>
             \o other_it_selections(s, its, current_it, referent[1], 1)
    ELSE << Span(current_it.start, current_it.end, Unmatched) >>

\* `if not it_keywords: return None`, `if not current_it: return None`
it_selections_at(s, its, current_it) ==
    IF its = <<>> \/ current_it = <<>> THEN <<>>
    ELSE it_selections_for(s, its, current_it[1], find_it_referent(s, current_it[1]))

it_selections_among(s, p, its) == it_selections_at(s, its, KeywordAtCursor(its, p, 1))

highlight_it_references(s, p) == it_selections_among(s, p, it_keywords(s))

(***************************************************************************)
(* Keyword-block matcher                                                   *)
(***************************************************************************)
\* mutant: the depth is floored at 0
RECURSIVE get_paren_depth_from_floored(_, _, _, _)
get_paren_depth_from_floored(s, i, p, depth) ==
    IF i >= p THEN depth
    ELSE IF s[i + 1] = "(" THEN get_paren_depth_from_floored(s, i + 1, p, depth + 1)
    ELSE IF s[i + 1] = ")"
         THEN get_paren_depth_from_floored(s, i + 1, p, IF depth > 0 THEN depth - 1 ELSE 0)
    ELSE get_paren_depth_from_floored(s, i + 1, p, depth)

RECURSIVE get_paren_depth_from(_, _, _, _)
get_paren_depth_from(s, i, p, depth) ==
    IF i >= p THEN depth
    ELSE IF s[i + 1] = "(" THEN get_paren_depth_from(s, i + 1, p, depth + 1)
    ELSE IF s[i + 1] = ")" THEN get_paren_depth_from(s, i + 1, p, depth - 1)
    ELSE get_paren_depth_from(s, i + 1, p, depth)

get_paren_depth(s, p) == get_paren_depth_from(s, 0, p, 0)

Reverse(q) == [k \in 1..Len(q) |-> q[Len(q) - k + 1]]

\* sorted([k for k in keywords if k['start'] > p], key=start)
KeywordsAfter(kws, p) == LET After(k) == k.start > p IN SelectSeq(kws, After)

\* sorted([k for k in keywords if k['start'] < p], key=start, reverse=True)
KeywordsBefore(kws, p) == LET Before(k) == k.start < p IN Reverse(SelectSeq(kws, Before))

\* mutant: the forward scan does not count the closing parentheses
RECURSIVE depth_forward_noclose(_, _, _, _, _)
depth_forward_noclose(s, i, hi, current_depth, start_depth) ==
    IF i >= hi THEN [depth |-> current_depth, below |-> FALSE]
    ELSE IF s[i + 1] = "("
         THEN depth_forward_noclose(s, i + 1, hi, current_depth + 1, start_depth)
    ELSE depth_forward_noclose(s, i + 1, hi, current_depth, start_depth)

\* the forward depth update `for i in range(lo, hi)`: the depth reached, and
\* whether the scan ended because the depth dropped below start_depth
RECURSIVE depth_forward(_, _, _, _, _)
depth_forward(s, i, hi, current_depth, start_depth) ==
    IF i >= hi THEN [depth |-> current_depth, below |-> FALSE]
    ELSE IF s[i + 1] = "(" THEN depth_forward(s, i + 1, hi, current_depth + 1, start_depth)
    ELSE IF s[i + 1] = ")"
         THEN IF current_depth - 1 < start_depth
              THEN [depth |-> current_depth - 1, below |-> TRUE]
              ELSE depth_forward(s, i + 1, hi, current_depth - 1, start_depth)
    ELSE depth_forward(s, i + 1, hi, current_depth, start_depth)

\* mutant: the backward scan counts the parentheses as the forward scan does
RECURSIVE depth_backward_asforward(_, _, _, _, _)
depth_backward_asforward(s, i, lo, current_depth, start_depth) ==
    IF i < lo THEN [depth |-> current_depth, below |-> FALSE]
    ELSE IF s[i + 1] = "("
         THEN depth_backward_asforward(s, i - 1, lo, current_depth + 1, start_depth)
    ELSE IF s[i + 1] = ")"
         THEN IF current_depth - 1 < start_depth
              THEN [depth |-> current_depth - 1, below |-> TRUE]
              ELSE depth_backward_asforward(s, i - 1, lo, current_depth - 1, start_depth)
    ELSE depth_backward_asforward(s, i - 1, lo, current_depth, start_depth)

\* mutant: the backward scan leaves out the character just after the keyword
RECURSIVE depth_backward_offbyone(_, _, _, _, _)
depth_backward_offbyone(s, i, lo, current_depth, start_depth) ==
    IF i <= lo THEN [depth |-> current_depth, below |-> FALSE]
    ELSE IF s[i + 1] = ")"
         THEN depth_backward_offbyone(s, i - 1, lo, current_depth + 1, start_depth)
    ELSE IF s[i + 1] = "("
         THEN IF current_depth - 1 < start_depth
              THEN [depth |-> current_depth - 1, below |-> TRUE]
              ELSE depth_backward_offbyone(s, i - 1, lo, current_depth - 1, start_depth)
    ELSE depth_backward_offbyone(s, i - 1, lo, current_depth, start_depth)

\* the backward depth update `for i in range(hi - 1, lo - 1, -1)`
RECURSIVE depth_backward(_, _, _, _, _)
depth_backward(s, i, lo, current_depth, start_depth) ==
    IF i < lo THEN [depth |-> current_depth, below |-> FALSE]
    ELSE IF s[i + 1] = ")" THEN depth_backward(s, i - 1, lo, current_depth + 1, start_depth)
    ELSE IF s[i + 1] = "("
         THEN IF current_depth - 1 < start_depth
              THEN [depth |-> current_depth - 1, below |-> TRUE]
              ELSE depth_backward(s, i - 1, lo, current_depth - 1, start_depth)
    ELSE depth_backward(s, i - 1, lo, current_depth, start_depth)

Group(i, t, e) == [if_pos |-> i, then_pos |-> t, else_pos |-> e]

\* mutant: only the keywords at the depth of the if are considered
RECURSIVE then_else_loop_samedepth(_, _, _, _, _, _, _, _, _)
then_else_loop_samedepth(s, if_kw, after, k, current_depth, prev_end, found_then, if_nesting, start_depth) ==
    IF k > Len(after) THEN Group(<<if_kw>>, found_then, <<>>)
    ELSE LET kw == after[k]
             r == depth_forward(s, IF k = 1 THEN if_kw.start ELSE prev_end, kw.start,
                                current_depth, start_depth)
         IN  IF r.below THEN Group(<<if_kw>>, found_then, <<>>)
             ELSE IF r.depth # start_depth
                  THEN then_else_loop_samedepth(s, if_kw, after, k + 1, r.depth, kw.end,
                                      found_then, if_nesting, start_depth)
             ELSE IF kw.word = W_if
                  THEN then_else_loop_samedepth(s, if_kw, after, k + 1, r.depth, kw.end,
                                      found_then, if_nesting + 1, start_depth)
             ELSE IF kw.word = W_then
                  THEN then_else_loop_samedepth(s, if_kw, after, k + 1, r.depth, kw.end,
                                      IF if_nesting = 0 /\ found_then = <<>>
                                      THEN <<kw>> ELSE found_then,
                                      if_nesting, start_depth)
             ELSE IF if_nesting = 0 /\ found_then # <<>>
                  THEN Group(<<if_kw>>, found_then, <<kw>>)
                  ELSE then_else_loop_samedepth(s, if_kw, after, k + 1, r.depth, kw.end,
                                      found_then,
                                      IF if_nesting > 0 THEN if_nesting - 1 ELSE if_nesting,
                                      start_depth)

\* the loop of find_then_else_for_if over after_keywords
RECURSIVE then_else_loop(_, _, _, _, _, _, _, _, _)
then_else_loop(s, if_kw, after, k, current_depth, prev_end, found_then, if_nesting, start_depth) ==
    IF k > Len(after) THEN Group(<<if_kw>>, found_then, <<>>)
    ELSE LET kw == after[k]
             r == depth_forward(s, IF k = 1 THEN if_kw.start ELSE prev_end, kw.start,
                                current_depth, start_depth)
         IN  IF r.below THEN Group(<<if_kw>>, found_then, <<>>)
             ELSE IF ~(r.depth >= start_depth)
                  THEN then_else_loop(s, if_kw, after, k + 1, r.depth, kw.end,
                                      found_then, if_nesting, start_depth)
             ELSE IF kw.word = W_if
                  THEN then_else_loop(s, if_kw, after, k + 1, r.depth, kw.end,
                                      found_then, if_nesting + 1, start_depth)
             ELSE IF kw.word = W_then
                  THEN then_else_loop(s, if_kw, after, k + 1, r.depth, kw.end,
                                      IF if_nesting = 0 /\ found_then = <<>>
                                      THEN <<kw>> ELSE found_then,
                                      if_nesting, start_depth)
             ELSE IF if_nesting = 0 /\ found_then # <<>>
                  THEN Group(<<if_kw>>, found_then, <<kw>>)
                  ELSE then_else_loop(s, if_kw, after, k + 1, r.depth, kw.end,
                                      found_then,
                                      IF if_nesting > 0 THEN if_nesting - 1 ELSE if_nesting,
                                      start_depth)

find_then_else_for_if(s, if_kw, kws) ==
    LET start_depth == get_paren_depth(s, if_kw.start)
    IN  then_else_loop(s, if_kw, KeywordsAfter(kws, if_kw.start), 1, start_depth,
                       if_kw.start, <<>>, 0, start_depth)

\* the backward loop of find_if_else_for_then: found_if
RECURSIVE if_for_then_loop(_, _, _, _, _, _, _)
if_for_then_loop(s, before, k, current_depth, prev_pos, then_nesting, start_depth) ==
    IF k > Len(before) THEN <<>>
    ELSE LET kw == before[k]
             r == depth_backward(s, prev_pos - 1, kw.end, current_depth, start_depth)
         IN  IF r.depth < start_depth THEN <<>>
             ELSE IF kw.word = W_then
                  THEN if_for_then_loop(s, before, k + 1, r.depth, kw.start,
                                        then_nesting + 1, start_depth)
             ELSE IF kw.word = W_if
                  THEN IF then_nesting = 0 THEN <<kw>>
                       ELSE if_for_then_loop(s, before, k + 1, r.depth, kw.start,
                                             then_nesting - 1, start_depth)
             ELSE if_for_then_loop(s, before, k + 1, r.depth, kw.start,
                                   then_nesting, start_depth)

\* the forward loop of find_if_else_for_then: found_else
RECURSIVE else_for_then_loop(_, _, _, _, _, _, _)
else_for_then_loop(s, after, k, current_depth, prev_end, if_nesting, start_depth) ==
    IF k > Len(after) THEN <<>>
    ELSE LET kw == after[k]
             r == depth_forward(s, prev_end, kw.start, current_depth, start_depth)
         IN  IF r.below THEN <<>>
             ELSE IF ~(r.depth >= start_depth)
                  THEN else_for_then_loop(s, after, k + 1, r.depth, kw.end,
                                          if_nesting, start_depth)
             ELSE IF kw.word = W_if
                  THEN else_for_then_loop(s, after, k + 1, r.depth, kw.end,
                                          if_nesting + 1, start_depth)
             ELSE IF kw.word = W_else
                  THEN IF if_nesting = 0 THEN <<kw>>
                       ELSE else_for_then_loop(s, after, k + 1, r.depth, kw.end,
                                               if_nesting - 1, start_depth)
             ELSE else_for_then_loop(s, after, k + 1, r.depth, kw.end,
                                     if_nesting, start_depth)

\* the else is searched only when an if was found
else_after(s, then_kw, kws, start_depth, found_if) ==
    Group(found_if, <<then_kw>>,
          IF found_if # <<>>
          THEN else_for_then_loop(s, KeywordsAfter(kws, then_kw.start), 1,
                                  start_depth, then_kw.end, 0, start_depth)
          ELSE <<>>)

if_else_at_depth(s, then_kw, kws, start_depth) ==
    else_after(s, then_kw, kws, start_depth,
               if_for_then_loop(s, KeywordsBefore(kws, then_kw.start), 1,
                                start_depth, then_kw.start, 0, start_depth))

find_if_else_for_then(s, then_kw, kws) ==
    if_else_at_depth(s, then_kw, kws, get_paren_depth(s, then_kw.start))

\* mutant: a nested else does not open a nested group
RECURSIVE if_then_loop_nonest(_, _, _, _, _, _, _, _)
if_then_loop_nonest(s, before, k, current_depth, prev_pos, else_nesting, found_then, start_depth) ==
    IF k > Len(before) THEN [found_if |-> <<>>, found_then |-> found_then]
    ELSE LET kw == before[k]
             r == depth_backward(s, prev_pos - 1, kw.end, current_depth, start_depth)
         IN  IF r.depth < start_depth THEN [found_if |-> <<>>, found_then |-> found_then]
             ELSE IF kw.word = W_else
                  THEN if_then_loop_nonest(s, before, k + 1, r.depth, kw.start,
                                           else_nesting, found_then, start_depth)
             ELSE IF kw.word = W_then
                  THEN if_then_loop_nonest(s, before, k + 1, r.depth, kw.start,
                                           else_nesting,
                                           IF found_then = <<>> THEN <<kw>> ELSE found_then,
                                           start_depth)
             ELSE IF found_then # <<>>
                  THEN [found_if |-> <<kw>>, found_then |-> found_then]
                  ELSE if_then_loop_nonest(s, before, k + 1, r.depth, kw.start,
                                           else_nesting, found_then, start_depth)

\* the backward loop of find_if_then_for_else: found_if and found_then
RECURSIVE if_then_loop(_, _, _, _, _, _, _, _)
if_then_loop(s, before, k, current_depth, prev_pos, else_nesting, found_then, start_depth) ==
    IF k > Len(before) THEN [found_if |-> <<>>, found_then |-> found_then]
    ELSE LET kw == before[k]
             r == depth_backward(s, prev_pos - 1, kw.end, current_depth, start_depth)
         IN  IF r.depth < start_depth THEN [found_if |-> <<>>, found_then |-> found_then]
             ELSE IF kw.word = W_else
                  THEN if_then_loop(s, before, k + 1, r.depth, kw.start,
                                    else_nesting + 1, found_then, start_depth)
             ELSE IF kw.word = W_then
                  THEN if_then_loop(s, before, k + 1, r.depth, kw.start, else_nesting,
                                    IF else_nesting = 0 /\ found_then = <<>>
                                    THEN <<kw>> ELSE found_then,
                                    start_depth)
             ELSE IF else_nesting = 0 /\ found_then # <<>>
                  THEN [found_if |-> <<kw>>, found_then |-> found_then]
                  ELSE if_then_loop(s, before, k + 1, r.depth, kw.start,
                                    IF else_nesting > 0 THEN else_nesting - 1
                                    ELSE else_nesting,
                                    found_then, start_depth)

find_if_then_for_else(s, else_kw, kws) ==
    LET start_depth == get_paren_depth(s, else_kw.start)
        r == if_then_loop(s, KeywordsBefore(kws, else_kw.start), 1, start_depth,
                          else_kw.start, 0, <<>>, start_depth)
    IN  Group(r.found_if, r.found_then, <<else_kw>>)

find_matching_if_then_else(s, kws, current_keyword) ==
    IF current_keyword.word = W_if THEN find_then_else_for_if(s, current_keyword, kws)
    ELSE IF current_keyword.word = W_then
         THEN find_if_else_for_then(s, current_keyword, kws)
    ELSE IF current_keyword.word = W_else
         THEN find_if_then_for_else(s, current_keyword, kws)
    ELSE Group(<<>>, <<>>, <<>>)

\* add_selection for a keyword that was found
KeywordSelection(kw, all_matched) ==
    IF kw = <<>> THEN <<>>
    ELSE <<Span(kw[1].start, kw[1].end, IF all_matched THEN Matched ELSE Unmatched)>>

\* mutant: a group counts as complete without its else
group_selections_noelse(g) ==
    LET all_matched == g.if_pos # <<>> /\ g.then_pos # <<>>
    IN  KeywordSelection(g.if_pos, all_matched)
            \o KeywordSelection(g.then_pos, all_matched)
            \o KeywordSelection(g.else_pos, all_matched)

\* mutant: the `if` of a group is styled as matched whenever it is found
group_selections_ifmatched(g) ==
    KeywordSelection(g.if_pos, TRUE)
        \o KeywordSelection(g.then_pos, g.then_pos # <<>> /\ g.else_pos # <<>>)
        \o KeywordSelection(g.else_pos, g.then_pos # <<>> /\ g.else_pos # <<>>)

\* a span for each keyword found: matched only when all three were found
group_selections(g) ==
    LET all_matched == g.if_pos # <<>> /\ g.then_pos # <<>> /\ g.else_pos # <<>>
    IN  KeywordSelection(g.if_pos, all_matched)
            \o KeywordSelection(g.then_pos, all_matched)
            \o KeywordSelection(g.else_pos, all_matched)

\* `if not keywords: return None`, `if not current_keyword: return None`
keyword_selections_at(s, kws, current_keyword) ==
    IF kws = <<>> \/ current_keyword = <<>> THEN <<>>
    ELSE group_selections(find_matching_if_then_else(s, kws, current_keyword[1]))

keyword_selections_among(s, p, kws) ==
    keyword_selections_at(s, kws, KeywordAtCursor(kws, p, 1))

highlight_if_then_else(s, p) == keyword_selections_among(s, p, keywords(s))

(***************************************************************************)
(* The per-cursor analysis (slot of cursorPositionChanged and textChanged) *)
(***************************************************************************)
\* mutant: the bracket check runs before the keyword checks
AnalysisBody_bracketfirst(s, p) ==
    IF s = <<>> \/ p > Len(s) THEN [sels |-> <<>>, raised |-> FALSE]
    ELSE IF BracketReadRaises(s, p) THEN [sels |-> <<>>, raised |-> TRUE]
    ELSE IF get_cursor_bracket_selections(s, p) # <<>>
         THEN [sels |-> get_cursor_bracket_selections(s, p), raised |-> FALSE]
    ELSE IF highlight_it_references(s, p) # <<>>
         THEN [sels |-> highlight_it_references(s, p), raised |-> FALSE]
    ELSE [sels |-> highlight_if_then_else(s, p), raised |-> FALSE]

\* what the body of the try block leaves in the pane's extra selections, and
\* whether it raised: the first matcher with a result decides
first_selections(s, p, it_selections, keyword_selections) ==
    IF it_selections # <<>> THEN [sels |-> it_selections, raised |-> FALSE]
    ELSE IF keyword_selections # <<>> THEN [sels |-> keyword_selections, raised |-> FALSE]
    ELSE IF BracketReadRaises(s, p) THEN [sels |-> <<>>, raised |-> TRUE]
    ELSE [sels |-> get_cursor_bracket_selections(s, p), raised |-> FALSE]

\* the body of the try block
AnalysisBody(s, p) ==
    IF s = <<>> \/ p > Len(s) THEN [sels |-> <<>>, raised |-> FALSE]
    ELSE first_selections(s, p, highlight_it_references(s, p), highlight_if_then_else(s, p))

\* mutant: no try/except around the body
highlight_matching_brackets_notry(s, p) ==
    [sels |-> AnalysisBody(s, p).sels, propagated |-> AnalysisBody(s, p).raised]

\* `except Exception: pass`: nothing raised in the body reaches the caller
highlight_matching_brackets(s, p) ==
    [sels |-> AnalysisBody(s, p).sels, propagated |-> FALSE]

(***************************************************************************)
(* Pretty-printer                                                          *)
(***************************************************************************)
\* str.strip()
Strip(s) ==
    LET b == SkipSpaceForward(s, 0)
        e == RStripEnd(s, Len(s))
    IN  Slice(s, b, e)

\* mutant: the keywords are split off wherever their letters occur
RECURSIVE tokenize_from_anywhere(_, _, _)
tokenize_from_anywhere(s, i, run_start) ==
    LET run == IF run_start < i THEN <<Slice(s, run_start, i)>> ELSE <<>>
    IN  IF i >= Len(s) THEN run
        ELSE IF s[i + 1] = "(" \/ s[i + 1] = ")"
             THEN run \o <<Slice(s, i, i + 1)>> \o tokenize_from_anywhere(s, i + 1, i + 1)
        ELSE IF \E w \in {W_if, W_then, W_else} : LiteralAt(s, i, w)
             THEN LET w == CHOOSE w \in {W_if, W_then, W_else} : LiteralAt(s, i, w)
                  IN  run \o <<Slice(s, i, i + Len(w))>>
                          \o tokenize_from_anywhere(s, i + Len(w), i + Len(w))
        ELSE tokenize_from_anywhere(s, i + 1, run_start)

\* re.split(r'(\(|\)|\bif\b|\bthen\b|\belse\b)', expr, flags=re.IGNORECASE)
\* without the empty strings: run_start is where the pending text run began
RECURSIVE tokenize_from(_, _, _)
tokenize_from(s, i, run_start) ==
    LET run == IF run_start < i THEN <<Slice(s, run_start, i)>> ELSE <<>>
    IN  IF i >= Len(s) THEN run
        ELSE IF s[i + 1] = "(" \/ s[i + 1] = ")"
             THEN run \o <<Slice(s, i, i + 1)>> \o tokenize_from(s, i + 1, i + 1)
        ELSE IF \E w \in {W_if, W_then, W_else} : WholeWordAt(s, i, w)
             THEN LET w == CHOOSE w \in {W_if, W_then, W_else} : WholeWordAt(s, i, w)
                  IN  run \o <<Slice(s, i, i + Len(w))>>
                          \o tokenize_from(s, i + Len(w), i + Len(w))
        ELSE tokenize_from(s, i + 1, run_start)

_tokenize_for_pretty_print(expr) == tokenize_from(expr, 0, 0)

IndentWidth == 4

\* indent_str * indent_level
RECURSIVE Indent(_)
Indent(n) == IF n <= 0 THEN <<>> ELSE <<" ">> \o Indent(n - 1)

\* '\n'.join(result)
RECURSIVE JoinLines(_, _)
JoinLines(lines, k) ==
    IF k > Len(lines) THEN <<>>
    ELSE IF k = Len(lines) THEN lines[k]
    ELSE lines[k] \o <<"\n">> \o JoinLines(lines, k + 1)

\* result after `if current_line.strip(): result.append(indent + current_line.strip())`
Flush(result, indent_level, current_line) ==
    IF Strip(current_line) # <<>>
    THEN Append(result, Indent(IndentWidth * indent_level) \o Strip(current_line))
    ELSE result

LowerStr(s) == [k \in 1..Len(s) |-> Lower(s[k])]

\* mutant: a keyword starts the buffered line without the blank after it
RECURSIVE pretty_print_loop_nospace(_, _, _, _, _)
pretty_print_loop_nospace(tokens, k, result, indent_level, current_line) ==
    IF k > Len(tokens) THEN Flush(result, indent_level, current_line)
    ELSE LET token_stripped == Strip(tokens[k])
             flushed == Flush(result, indent_level, current_line)
             \* current_line after the flush: it is reset only when it was flushed
             kept == IF Strip(current_line) # <<>> THEN <<>> ELSE current_line
         IN  IF token_stripped = <<>>
             THEN pretty_print_loop_nospace(tokens, k + 1, result, indent_level,
                      IF current_line # <<>> /\ current_line[Len(current_line)] # " "
                      THEN current_line \o <<" ">> ELSE current_line)
             ELSE IF token_stripped = <<"(">>
             THEN pretty_print_loop_nospace(tokens, k + 1,
                      Append(flushed, Indent(IndentWidth * indent_level) \o <<"(">>),
                      indent_level + 1, kept)
             ELSE IF token_stripped = <<")">>
             THEN LET dedent == IF indent_level - 1 > 0 THEN indent_level - 1 ELSE 0
                  IN  pretty_print_loop_nospace(tokens, k + 1,
                          Append(flushed, Indent(IndentWidth * dedent) \o <<")">>),
                          dedent, kept)
             ELSE IF LowerStr(token_stripped) \in {W_if, W_then, W_else}
             THEN pretty_print_loop_nospace(tokens, k + 1, flushed, indent_level,
                      token_stripped)
             ELSE pretty_print_loop_nospace(tokens, k + 1, result, indent_level,
                      current_line \o token_stripped \o <<" ">>)

\* mutant: the closing parenthesis is emitted before the level is decreased
RECURSIVE pretty_print_loop_latededent(_, _, _, _, _)
pretty_print_loop_latededent(tokens, k, result, indent_level, current_line) ==
    IF k > Len(tokens) THEN Flush(result, indent_level, current_line)
    ELSE LET token_stripped == Strip(tokens[k])
             flushed == Flush(result, indent_level, current_line)
             \* current_line after the flush: it is reset only when it was flushed
             kept == IF Strip(current_line) # <<>> THEN <<>> ELSE current_line
         IN  IF token_stripped = <<>>
             THEN pretty_print_loop_latededent(tokens, k + 1, result, indent_level,
                      IF current_line # <<>> /\ current_line[Len(current_line)] # " "
                      THEN current_line \o <<" ">> ELSE current_line)
             ELSE IF token_stripped = <<"(">>
             THEN pretty_print_loop_latededent(tokens, k + 1,
                      Append(flushed, Indent(IndentWidth * indent_level) \o <<"(">>),
                      indent_level + 1, kept)
             ELSE IF token_stripped = <<")">>
             THEN LET dedent == IF indent_level - 1 > 0 THEN indent_level - 1 ELSE 0
                  IN  pretty_print_loop_latededent(tokens, k + 1,
                          Append(flushed, Indent(IndentWidth * indent_level) \o <<")">>),
                          dedent, kept)
             ELSE IF LowerStr(token_stripped) \in {W_if, W_then, W_else}
             THEN pretty_print_loop_latededent(tokens, k + 1, flushed, indent_level,
                      token_stripped \o <<" ">>)
             ELSE pretty_print_loop_latededent(tokens, k + 1, result, indent_level,
                      current_line \o token_stripped \o <<" ">>)

\* the token loop of pretty_print_relevance: the list of lines
RECURSIVE pretty_print_loop(_, _, _, _, _)
pretty_print_loop(tokens, k, result, indent_level, current_line) ==
    IF k > Len(tokens) THEN Flush(result, indent_level, current_line)
    ELSE LET token_stripped == Strip(tokens[k])
             flushed == Flush(result, indent_level, current_line)
             \* current_line after the flush: it is reset only when it was flushed
             kept == IF Strip(current_line) # <<>> THEN <<>> ELSE current_line
         IN  IF token_stripped = <<>>
             THEN pretty_print_loop(tokens, k + 1, result, indent_level,
                      IF current_line # <<>> /\ current_line[Len(current_line)] # " "
                      THEN current_line \o <<" ">> ELSE current_line)
             ELSE IF token_stripped = <<"(">>
             THEN pretty_print_loop(tokens, k + 1,
                      Append(flushed, Indent(IndentWidth * indent_level) \o <<"(">>),
                      indent_level + 1, kept)
             ELSE IF token_stripped = <<")">>
             THEN LET dedent == IF indent_level - 1 > 0 THEN indent_level - 1 ELSE 0
                  IN  pretty_print_loop(tokens, k + 1,
                          Append(flushed, Indent(IndentWidth * dedent) \o <<")">>),
                          dedent, kept)
             ELSE IF LowerStr(token_stripped) \in {W_if, W_then, W_else}
             THEN pretty_print_loop(tokens, k + 1, flushed, indent_level,
                      token_stripped \o <<" ">>)
             ELSE pretty_print_loop(tokens, k + 1, result, indent_level,
                      current_line \o token_stripped \o <<" ">>)

pretty_print_relevance(expr) ==
    JoinLines(pretty_print_loop(_tokenize_for_pretty_print(expr), 1, <<>>, 0, <<>>), 1)

\* mutant: every blank becomes a space of its own, runs are not collapsed
RECURSIVE compact_from_each(_, _)
compact_from_each(s, i) ==
    IF i >= Len(s) THEN <<>>
    ELSE IF IsSpace(s[i + 1]) THEN <<" ">> \o compact_from_each(s, i + 1)
    ELSE <<s[i + 1]>> \o compact_from_each(s, i + 1)

\* ' '.join(expr.split()) for an expr that str.strip() already trimmed
RECURSIVE compact_from(_, _)
compact_from(s, i) ==
    IF i >= Len(s) THEN <<>>
    ELSE IF IsSpace(s[i + 1])
         THEN LET j == SkipSpaceForward(s, i)
              IN  IF j >= Len(s) \/ i = 0 THEN compact_from(s, j)
                  ELSE <<" ">> \o compact_from(s, j)
    ELSE <<s[i + 1]>> \o compact_from(s, i + 1)

compact(expr) == compact_from(expr, 0)

\* ' '.join(expr.split()) for any expr: split() drops the blanks at both ends
single_line(expr) == compact(Strip(expr))

\* the text format_expression puts in the pane, or None when it returns early
formatted_text(s) ==
    LET expr == Strip(s)
    IN  IF expr = <<>> THEN <<>>
        ELSE IF StrContainsChar(expr, "\n") THEN <<compact(expr)>>
        ELSE <<pretty_print_relevance(expr)>>

(***************************************************************************)
(* Documents the model loads into the pane                                 *)
(***************************************************************************)
RECURSIVE Flatten(_)
Flatten(q) == IF q = <<>> THEN <<>> ELSE Head(q) \o Flatten(Tail(q))

\* every concatenation of at most n pieces drawn from L
Docs(L, n) == {Flatten(q) : q \in UNION {[1..k -> L] : k \in 0..n}}

SP == <<" ">>

Lexemes == {W_if, W_then, W_else, W_it, <<"(">>, <<")">>, <<"[">>, <<"]">>, SP, <<"a">>}

OffLexemes == {W_if, W_it, <<"(">>, <<")">>, <<"]">>, SP, <<"a">>}

KwLexemes == {W_if, W_then, W_else, SP, <<"(">>, <<")">>}

NL == <<"\n">>

TAB == <<"\t">>

\* pieces of texts to reformat: keywords in either case, parentheses, the three
\* kinds of blank and a letter that glues to its neighbours
FmtLexemes == {W_if, W_then, <<"E", "l", "s", "e">>, <<"(">>, <<")">>, SP, NL, TAB, <<"a">>}

\* an indented multi-line text with blank runs and blank ends, and a single
\* line with keywords as whole words and inside longer words: aif (Then a) ifa
FmtCases ==
    {SP \o SP \o W_if \o SP \o <<"a">> \o NL \o TAB \o SP \o <<"(">> \o <<"a">> \o <<")">>
         \o SP \o SP \o <<"E", "l", "s", "e">> \o SP \o <<"a">> \o SP \o NL,
     <<"a">> \o W_if \o SP \o <<"(">> \o <<"T", "h", "e", "n">> \o SP \o <<"a">> \o <<")">>
         \o SP \o W_if \o <<"a">>}

BrChars == {"(", ")", "[", "]", "{", "}", "a"}

\* names of files whose (it contains ".txt")
WhoseDoc ==
    <<"n", "a", "m", "e", "s">> \o SP \o W_of \o SP \o <<"f", "i", "l", "e", "s">> \o SP
        \o W_whose \o SP \o <<"(">> \o W_it \o SP
        \o <<"c", "o", "n", "t", "a", "i", "n", "s">> \o SP
        \o <<"\"", ".", "t", "x", "t", "\"">> \o <<")">>

\* (name of it, version of it) of operating system
OfItDoc ==
    <<"(">> \o <<"n", "a", "m", "e">> \o SP \o W_of \o SP \o W_it \o <<",">> \o SP
        \o <<"v", "e", "r", "s", "i", "o", "n">> \o SP \o W_of \o SP \o W_it \o <<")">>
        \o SP \o W_of \o SP
        \o <<"o", "p", "e", "r", "a", "t", "i", "n", "g">> \o SP
        \o <<"s", "y", "s", "t", "e", "m">>

SampleDocs == {WhoseDoc, OfItDoc}

\* pieces of the referent idioms
RefLexemes ==
    {W_whose \o SP \o <<"(">>, SP \o W_of \o SP \o W_it, <<")">> \o SP \o W_of \o SP,
     W_it, <<"(">>, <<")">>, <<"a">> \o SP}

\* longer instances of the referent idioms:
\*   (a (b)) whose (it)          a whose (b) it
\*   a whose (( of it) of b)     a,b whose (its)
\*   ( of it) of a<newline>b     ( of it, of it) of (a) b)
\*   ( of it) of a whose (it     its ( of it, of it) of a
\*   a whose (b whose (it))
RefCases ==
    {<<"a", " ", "w", "h", "o", "s", "e", " ", "(", "b", " ", "w", "h", "o", "s", "e", " ", "(", "i", "t", ")", ")">>,
     <<"(", "a", " ", "(", "b", ")", ")", " ", "w", "h", "o", "s", "e", " ", "(", "i", "t", ")">>,
     <<"a", " ", "w", "h", "o", "s", "e", " ", "(", "b", ")", " ", "i", "t">>,
     <<"a", " ", "w", "h", "o", "s", "e", " ", "(", "(", " ", "o", "f", " ", "i", "t", ")", " ", "o", "f", " ", "b", ")">>,
     <<"a", ",", "b", " ", "w", "h", "o", "s", "e", " ", "(", "i", "t", "s", ")">>,
     <<"(", " ", "o", "f", " ", "i", "t", ")", " ", "o", "f", " ", "a", "\n", "b">>,
     <<"(", " ", "o", "f", " ", "i", "t", ",", " ", "o", "f", " ", "i", "t", ")", " ", "o", "f", " ", "(", "a", ")", " ", "b", ")">>,
     <<"(", " ", "o", "f", " ", "i", "t", ")", " ", "o", "f", " ", "a", " ", "w", "h", "o", "s", "e", " ", "(", "i", "t">>,
     <<"i", "t", "s", " ", "(", " ", "o", "f", " ", "i", "t", ",", " ", "o", "f", " ", "i", "t", ")", " ", "o", "f", " ", "a">>}

\* parentheses balanced and well nested
RECURSIVE WellNestedFrom(_, _, _)
WellNestedFrom(s, k, depth) ==
    IF k > Len(s) THEN depth = 0
    ELSE IF s[k] = "(" THEN WellNestedFrom(s, k + 1, depth + 1)
    ELSE IF s[k] = ")" THEN depth > 0 /\ WellNestedFrom(s, k + 1, depth - 1)
    ELSE WellNestedFrom(s, k + 1, depth)

WellNested(s) == WellNestedFrom(s, 1, 0)

FragChars == {" ", "a", "(", ")"}

Frags == {f \in UNION {[1..k -> FragChars] : k \in 0..MaxFrag} : WellNested(f)}

\* if X then Y else Z
IteDocs == {W_if \o x \o W_then \o y \o W_else \o z : x \in Frags, y \in Frags, z \in Frags}

NestFrags == Docs({<<"a">>, SP}, MaxNest)

\* if A then (if B then C else D) else E
NestedDoc(A, B, C, D, E) ==
    W_if \o SP \o A \o SP \o W_then \o SP \o <<"(">> \o W_if \o SP \o B \o SP
        \o W_then \o SP \o C \o SP \o W_else \o SP \o D \o <<")">> \o SP
        \o W_else \o SP \o E

NestedDocs ==
    {NestedDoc(A, B, C, D, E) :
        A \in NestFrags, B \in NestFrags, C \in NestFrags, D \in NestFrags, E \in NestFrags}

(***************************************************************************)
(* Evaluation: QnA worker threads, their queued signals and the slots      *)
(*                                                                         *)
(* A line of the QnA pane is a record [k, t]: k is what the line's         *)
(* stripped text starts with and t names its content.                      *)
(*   "Q"  Q: followed by a query        "Qe"  a bare Q:                    *)
(*   "C"  other text                    "B"   a blank line                 *)
(*   "A"  a result line (A:, T:, I:)    "E"   an E: line                   *)
(* A query is the sequence of the names of the lines it was joined from,   *)
(* and a result line carries the query of the worker that produced it.     *)
(***************************************************************************)
Blank == [k |-> "B", t |-> <<>>]

\* stripped.startswith(('A:', 'E:', 'T:', 'I:'))
IsResultLine(l) == l.k \in {"A", "E"}

\* not line.strip()
IsBlankLine(l) == l.k = "B"

\* stripped.startswith('Q:')
StartsWithQ(l) == l.k \in {"Q", "Qe"}

\* the Evaluate button: setEnabled and setText are always called together
ButtonReady == [enabled |-> TRUE, label |-> "Evaluate"]

ButtonBusy == [enabled |-> FALSE, label |-> "Evaluating..."]

\* the fields of the window and the state of its threads, as one record
Window ==
    [worker |-> worker, worker_counter |-> worker_counter, threads |-> threads,
     events |-> events, pending_queries |-> pending_queries,
     current_query_index |-> current_query_index,
     current_line_num |-> current_line_num, evaluating_tab |-> evaluating_tab,
     doc |-> doc, output_pane |-> output_pane, evaluate_btn |-> evaluate_btn]

\* a disconnect that leaves the calls already queued deliverable
disconnect_keeps_queued(st, w) == st

\* worker.finished.disconnect(); worker.error.disconnect(): the slot proxies
\* of the queued connections are disabled, so a call of worker w that is
\* already in the event queue is ignored when it is delivered
disconnect(st, w) ==
    [st EXCEPT !.events =
        [i \in DOMAIN st.events |->
            IF st.events[i].wid = w THEN [st.events[i] EXCEPT !.live = FALSE]
            ELSE st.events[i]]]

\* disconnect, cancel(), wait/terminate, self.worker = None
stop_worker(st) ==
    IF st.worker = <<>> THEN st
    ELSE [disconnect(st, st.worker[1]) EXCEPT
            !.worker = <<>>, !.threads[st.worker[1]].running = FALSE]

_cleanup_worker(st) == stop_worker(st)

\* worker_counter += 1; QnAWorker(...); connect both signals queued; start()
start_worker(st, mode, query) ==
    [st EXCEPT
        !.worker_counter = @ + 1,
        !.worker = <<st.worker_counter + 1>>,
        !.threads = Append(@, [mode |-> mode, query |-> query, running |-> TRUE])]

evaluate_next_query(st) ==
    IF st.current_query_index >= Len(st.pending_queries)
    THEN _cleanup_worker([st EXCEPT !.evaluate_btn = ButtonReady])
    ELSE start_worker(
             stop_worker([st EXCEPT
                 !.current_line_num = st.pending_queries[st.current_query_index + 1].line_num,
                 !.evaluate_btn = ButtonBusy]),
             "qna", st.pending_queries[st.current_query_index + 1].query)

\* the block the cursor reaches after line_num NextBlock moves, 1-based
BlockAt(d, line_num) == IF line_num + 1 > Len(d) THEN Len(d) ELSE line_num + 1

\* '\n' + result (+ '\n') typed at the end of block line_num
InsertLines(d, at, result, add_spacing) ==
    SubSeq(d, 1, at) \o result \o (IF add_spacing THEN <<Blank>> ELSE <<>>)
        \o SubSeq(d, at + 1, Len(d))

\* results only ever arrive for a QnA tab (evaluate() stops the worker of
\* any other tab before it starts one)
insert_result_after_line(st, line_num, result, add_spacing) ==
    IF st.evaluating_tab # "qna" \/ result = <<>> THEN st
    ELSE [st EXCEPT !.doc = InsertLines(@, BlockAt(@, line_num), result, add_spacing)]

\* is_last_query = (current_query_index == len(pending_queries) - 1);
\* insert with add_spacing = not is_last_query; current_query_index += 1
on_query_finished(st, line_num, result) ==
    evaluate_next_query(
        [insert_result_after_line(st, line_num, result,
             st.current_query_index # Len(st.pending_queries) - 1)
         EXCEPT !.current_query_index = @ + 1])

\* the same with the one line f"E: {error_msg}"
on_query_error(st, line_num, error_line) == on_query_finished(st, line_num, <<error_line>>)

\* the lines a worker's finished signal carries: n result lines of its query
ResultLines(q, n) == [i \in 1..n |-> [k |-> "A", t |-> q]]

_on_worker_finished(st, e) ==
    IF st.worker = <<>> THEN st
    ELSE on_query_finished(st, st.current_line_num, ResultLines(st.threads[e.wid].query, e.n))

_on_worker_error(st, e) ==
    IF st.worker = <<>> THEN st
    ELSE on_query_error(st, st.current_line_num, [k |-> "E", t |-> st.threads[e.wid].query])

\* the output pane shows the result or error of worker e.wid
sc_show(st, e) ==
    _cleanup_worker([st EXCEPT
        !.output_pane = [kind |-> e.sig, wid |-> e.wid],
        !.evaluate_btn = ButtonReady])

\* a QnA tab has no output pane
_on_sc_worker_finished(st, e) ==
    IF st.worker = <<>> \/ st.evaluating_tab # "sc" THEN st ELSE sc_show(st, e)

_on_sc_worker_error(st, e) ==
    IF st.worker = <<>> \/ st.evaluating_tab = "none" THEN st
    ELSE IF st.evaluating_tab = "sc" THEN sc_show(st, e)
    ELSE _cleanup_worker([st EXCEPT !.evaluate_btn = ButtonReady])

\* the slot a queued call of worker e.wid invokes
slot(st, e) ==
    IF st.threads[e.wid].mode = "qna"
    THEN IF e.sig = "finished" THEN _on_worker_finished(st, e) ELSE _on_worker_error(st, e)
    ELSE IF e.sig = "finished" THEN _on_sc_worker_finished(st, e)
    ELSE _on_sc_worker_error(st, e)

\* the event loop takes the next queued call; a disabled proxy ignores it
deliver(st) ==
    IF Head(st.events).live THEN slot([st EXCEPT !.events = Tail(@)], Head(st.events))
    ELSE [st EXCEPT !.events = Tail(@)]

\* cleaned_lines: the lines that are no result lines
RECURSIVE strip_results(_)
strip_results(d) ==
    IF d = <<>> THEN <<>>
    ELSE IF IsResultLine(Head(d)) THEN strip_results(Tail(d))
    ELSE <<Head(d)>> \o strip_results(Tail(d))

\* final_lines: at most one blank line in a row
RECURSIVE collapse_blanks(_, _)
collapse_blanks(d, prev_blank) ==
    IF d = <<>> THEN <<>>
    ELSE IF IsBlankLine(Head(d)) /\ prev_blank THEN collapse_blanks(Tail(d), prev_blank)
    ELSE <<Head(d)>> \o collapse_blanks(Tail(d), IsBlankLine(Head(d)))

\* ''.split('\n') is ['']: a pane whose lines were all removed has one blank line
cleaned_text(d) ==
    IF collapse_blanks(strip_results(d), FALSE) = <<>> THEN <<Blank>>
    ELSE collapse_blanks(strip_results(d), FALSE)

\* the look-ahead loop: j (0-based) is the first line that is no continuation
RECURSIVE continuation_end(_, _)
continuation_end(lines, j) ==
    IF j >= Len(lines) THEN j
    ELSE IF IsBlankLine(lines[j + 1]) \/ StartsWithQ(lines[j + 1]) THEN j
    ELSE continuation_end(lines, j + 1)

\* ' '.join(query_parts) of lines i..j-1
query_parts(lines, i, j) == [n \in 1..(j - i) |-> lines[i + n].t[1]]

\* the while loop over the cleaned lines, i 0-based
RECURSIVE find_queries(_, _, _)
find_queries(lines, i, found) ==
    IF i >= Len(lines) THEN found
    ELSE IF lines[i + 1].k = "Q"
    THEN find_queries(lines, continuation_end(lines, i + 1),
             Append(found,
                 [line_num |-> continuation_end(lines, i + 1) - 1,
                  query |-> query_parts(lines, i, continuation_end(lines, i + 1))]))
    ELSE find_queries(lines, i + 1, found)

\* no Q: line: the cursor's line (setPlainText left the cursor in block 0)
\* becomes a query if it is text that does not start with Q:
typed_without_q(d) == find_queries(d, 0, <<>>) = <<>> /\ d[1].k = "C"

\* the pane after evaluate_qna_mode has cleaned it and prefixed the typed line
prepared_doc(d) ==
    IF typed_without_q(cleaned_text(d))
    THEN [cleaned_text(d) EXCEPT ![1].k = "Q"]
    ELSE cleaned_text(d)

\* pending_queries before it is reversed
found_queries(d) ==
    IF typed_without_q(cleaned_text(d))
    THEN <<[line_num |-> 0, query |-> cleaned_text(d)[1].t]>>
    ELSE find_queries(cleaned_text(d), 0, <<>>)

\* the list left in document order
reverse_not(q) == q

\* list.reverse()
reverse(q) == [i \in 1..Len(q) |-> q[Len(q) + 1 - i]]

run_queries(st) ==
    IF found_queries(st.doc) = <<>>
    THEN [st EXCEPT !.doc = prepared_doc(@), !.pending_queries = <<>>]
    ELSE evaluate_next_query([st EXCEPT
             !.doc = prepared_doc(@),
             !.pending_queries = reverse(found_queries(st.doc)),
             !.current_query_index = 0])

\* qna_exists: os.path.exists(self.qna_path)
evaluate_qna_mode(st, qna_exists) ==
    IF ~qna_exists THEN stop_worker(st) ELSE run_queries(stop_worker(st))

\* expression.upper().startswith('Q:')
has_q_prefix(expr) == Len(expr) >= 2 /\ expr[1] \in {"Q", "q"} /\ expr[2] = ":"

sc_start(st, expr) ==
    IF expr = <<>> THEN st
    ELSE IF has_q_prefix(expr)
    THEN [st EXCEPT !.output_pane = [kind |-> "q_prefix", wid |-> 0]]
    ELSE start_worker([st EXCEPT
             !.output_pane = [kind |-> "empty", wid |-> 0],
             !.evaluate_btn = ButtonBusy], "sc", <<>>)

\* s: the text of the Single Clause input pane
evaluate_single_clause_mode(st, s, qna_exists) ==
    IF ~qna_exists THEN stop_worker(st) ELSE sc_start(stop_worker(st), single_line(s))

\* tab: the active tab's type
evaluate(st, tab, s, qna_exists) ==
    IF tab = "qna" THEN evaluate_qna_mode([st EXCEPT !.evaluating_tab = tab], qna_exists)
    ELSE evaluate_single_clause_mode([st EXCEPT !.evaluating_tab = tab], s, qna_exists)

stop_evaluation(st) ==
    [stop_worker(st) EXCEPT
        !.pending_queries = <<>>, !.evaluating_tab = "none", !.evaluate_btn = ButtonReady]

\* QnAWorker.run of thread w reaches an emit: the call is queued for the main thread
emit(st, w, sig, n) ==
    [st EXCEPT
        !.threads[w].running = FALSE,
        !.events = Append(@, [wid |-> w, sig |-> sig, n |-> n, live |-> TRUE])]

(***************************************************************************)
(* Actions                                                                 *)
(***************************************************************************)
\* pane.setExtraSelections(...), and whether the slot let an exception out
setExtraSelections(r) ==
    /\ selections' = r.sels
    /\ propagated' = (propagated \/ r.propagated)

\* the slot runs on the pane's text with the cursor at offset p
Highlight(s, p) == setExtraSelections(highlight_matching_brackets(s, p))

\* __init__: no worker, nothing pending, the QnA pane holding the lines d
Constructed(d) ==
    /\ worker = <<>>
    /\ worker_counter = 0
    /\ threads = <<>>
    /\ events = <<>>
    /\ pending_queries = <<>>
    /\ current_query_index = 0
    /\ current_line_num = 0
    /\ evaluating_tab = "none"
    /\ doc = d
    /\ output_pane = [kind |-> "empty", wid |-> 0]
    /\ evaluate_btn = ButtonReady

\* a document has just been put in the pane: the cursor is at its start
Loaded(docs) ==
    /\ text \in docs
    /\ pos = 0
    /\ selections = highlight_matching_brackets(text, 0).sels
    /\ propagated = FALSE
    /\ is_dirty = FALSE
    /\ Constructed(<<Blank>>)
    /\ active_tab = "sc"

\* cursorPositionChanged -> highlight_matching_brackets
CursorRight ==
    /\ pos < Len(text)
    /\ pos' = pos + 1
    /\ Highlight(text, pos')
    /\ UNCHANGED <<text, is_dirty, evalvars, active_tab>>

CursorLeft ==
    /\ pos > 0
    /\ pos' = pos - 1
    /\ Highlight(text, pos')
    /\ UNCHANGED <<text, is_dirty, evalvars, active_tab>>

\* analyze_at(text, offset) for an offset the caller did not clamp
AnalyzeAt(p) ==
    /\ p # pos
    /\ pos' = p
    /\ Highlight(text, p)
    /\ UNCHANGED <<text, is_dirty, evalvars, active_tab>>

\* Expand/Compact in a Single Clause tab; setPlainText moves the cursor to the
\* start and emits textChanged -> on_text_changed
format_expression ==
    LET f == formatted_text(text)
    IN  /\ f # <<>>
        /\ text' = f[1]
        /\ pos' = 0
        /\ Highlight(text', 0)
        /\ is_dirty' = TRUE
        /\ UNCHANGED <<evalvars, active_tab>>

\* the fields of the window become those of st
Becomes(st) ==
    /\ worker' = st.worker
    /\ worker_counter' = st.worker_counter
    /\ threads' = st.threads
    /\ events' = st.events
    /\ pending_queries' = st.pending_queries
    /\ current_query_index' = st.current_query_index
    /\ current_line_num' = st.current_line_num
    /\ evaluating_tab' = st.evaluating_tab
    /\ doc' = st.doc
    /\ output_pane' = st.output_pane
    /\ evaluate_btn' = st.evaluate_btn

\* the workers the run that evaluate() starts will create
WorkersNeeded == IF active_tab = "qna" THEN Len(found_queries(doc)) ELSE 1

\* F5, Ctrl+Enter, the Evaluate button or the menu entry: evaluate()
PressEvaluate(qna_exists) ==
    /\ worker_counter + WorkersNeeded <= MaxWorkers
    /\ Becomes(evaluate(Window, active_tab, text, qna_exists))
    /\ UNCHANGED <<editvars, active_tab>>

\* the Stop entry: stop_evaluation()
PressStop ==
    /\ Becomes(stop_evaluation(Window))
    /\ UNCHANGED <<editvars, active_tab>>

\* a running worker thread emits finished (with n result lines) or error
WorkerEmits(w, sig, n) ==
    /\ threads[w].running
    /\ Becomes(emit(Window, w, sig, n))
    /\ UNCHANGED <<editvars, active_tab>>

\* the main thread's event loop delivers the next queued call
EventLoop ==
    /\ events # <<>>
    /\ Becomes(deliver(Window))
    /\ UNCHANGED <<editvars, active_tab>>

\* the user selects the other tab
SwitchTab ==
    /\ active_tab' = (IF active_tab = "qna" THEN "sc" ELSE "qna")
    /\ UNCHANGED <<editvars, evalvars>>

\* the user replaces the text of the Single Clause pane: the cursor ends
\* behind the typed text, textChanged -> on_text_changed
EditText(s) ==
    /\ s # text
    /\ text' = s
    /\ pos' = Len(s)
    /\ Highlight(s, Len(s))
    /\ is_dirty' = TRUE
    /\ UNCHANGED <<evalvars, active_tab>>

(***************************************************************************)
(* Specifications                                                          *)
(***************************************************************************)
Init == Loaded(Docs(Lexemes, MaxLex) \cup SampleDocs)

Next == CursorRight \/ CursorLeft \/ format_expression

Spec == Init /\ [][Next]_vars

InitOffset == Loaded(Docs(OffLexemes, MaxOffLex))

NextOffset ==
    \/ \E p \in (0 - Len(text) - 2)..(Len(text) + 2) : AnalyzeAt(p)
    \/ format_expression

SpecOffset == InitOffset /\ [][NextOffset]_vars

InitBr == Loaded(UNION {[1..k -> BrChars] : k \in 0..MaxBrLen})

NextCursor == CursorRight \/ CursorLeft

SpecBr == InitBr /\ [][NextCursor]_vars

InitKw == Loaded(Docs(KwLexemes, MaxKwLex))

SpecKw == InitKw /\ [][NextCursor]_vars

InitIte == Loaded(IteDocs)

SpecIte == InitIte /\ [][NextCursor]_vars

InitNested == Loaded(NestedDocs)

SpecNested == InitNested /\ [][NextCursor]_vars

InitRef == Loaded(Docs(RefLexemes, MaxRefLex) \cup SampleDocs \cup RefCases)

SpecRef == InitRef /\ [][NextCursor]_vars

InitFmt == Loaded(Docs(FmtLexemes, MaxFmtLex) \cup FmtCases)

SpecFmt == InitFmt /\ [][Next]_vars

\* lines of QnA panes: queries, text, a bare Q: and a stale result line
QLine(n) == [k |-> "Q", t |-> <<n>>]

CLine(n) == [k |-> "C", t |-> <<n>>]

BareQ == [k |-> "Qe", t |-> <<>>]

\* a result line left in the pane by an earlier run
StaleLine == [k |-> "A", t |-> <<0>>]

\* QnA panes of the evaluation model
EvalDocs ==
    {<<QLine(1)>>, <<QLine(1), QLine(2)>>, <<QLine(1), CLine(3), Blank>>, <<CLine(3)>>,
     <<Blank>>, <<StaleLine, QLine(1), StaleLine>>}

\* the lines a QnA pane is made of
DocLines == {QLine(1), QLine(2), CLine(3), Blank, BareQ, StaleLine}

QnaDocs == UNION {[1..k -> DocLines] : k \in 1..MaxDocLines}

\* expressions of the Single Clause pane: none, one to evaluate, one with a Q: prefix
ScTexts == {<<>>, <<"a">>, <<"q", ":", "a">>}

InitEval ==
    /\ text \in ScTexts
    /\ pos = 0
    /\ selections = highlight_matching_brackets(text, 0).sels
    /\ propagated = FALSE
    /\ is_dirty = FALSE
    /\ \E d \in EvalDocs : Constructed(d)
    /\ active_tab \in {"qna", "sc"}

Signals ==
    {[sig |-> "finished", n |-> n] : n \in 0..MaxResultLines} \cup {[sig |-> "error", n |-> 0]}

WorkerStep == \E w \in 1..Len(threads) : \E g \in Signals : WorkerEmits(w, g.sig, g.n)

NextEval ==
    \/ \E qna_exists \in BOOLEAN : PressEvaluate(qna_exists)
    \/ PressStop
    \/ WorkerStep
    \/ EventLoop
    \/ SwitchTab
    \/ \E s \in ScTexts : EditText(s)

SpecEval == InitEval /\ [][NextEval]_vars

\* a QnA tab alone: the pane is not edited and the tab stays selected
InitQna ==
    /\ text = <<>>
    /\ pos = 0
    /\ selections = highlight_matching_brackets(text, 0).sels
    /\ propagated = FALSE
    /\ is_dirty = FALSE
    /\ \E d \in QnaDocs : Constructed(d)
    /\ active_tab = "qna"

NextQna ==
    \/ \E qna_exists \in BOOLEAN : PressEvaluate(qna_exists)
    \/ PressStop
    \/ WorkerStep
    \/ EventLoop

SpecQna == InitQna /\ [][NextQna]_vars

(***************************************************************************)
(* Properties                                                              *)
(***************************************************************************)
BracketChars == {"(", ")", "[", "]", "{", "}"}

\* the cursor offset p satisfies start <= p <= end for a whole-word occurrence
\* of one of the words
OnWord(s, p, words) ==
    \E i \in 0..(Len(s) - 1) : \E w \in words :
        WholeWordAt(s, i, w) /\ i <= p /\ p <= i + Len(w)

ItWords == {W_it, W_its, W_them}
KwWords == {W_if, W_then, W_else}

InRange(s, p) == 0 <= p /\ p <= Len(s)

Clamp(s, p) == IF p < 0 THEN 0 ELSE IF p > Len(s) THEN Len(s) ELSE p

IsSpan(x) == x.cls \in {Matched, Unmatched} /\ x.start \in Int /\ x.end \in Int

\* C1: for a non-empty text and a cursor offset in [0, len(text)] the pane shows
\* the result of exactly one matcher: the referent resolver's when the cursor is
\* on a whole-word it/its/them, else the keyword-block matcher's when it is on a
\* whole-word if/then/else, else the bracket matcher's.
C1_OneMatcherByPriority ==
    (text # <<>> /\ InRange(text, pos)) =>
        IF OnWord(text, pos, ItWords)
        THEN /\ selections = highlight_it_references(text, pos)
             /\ selections # <<>>
        ELSE IF OnWord(text, pos, KwWords)
             THEN /\ selections = highlight_if_then_else(text, pos)
                  /\ selections # <<>>
             ELSE selections = get_cursor_bracket_selections(text, pos)

\* the cursor is on a pronoun with a bracket next to it, and the pane shows the
\* resolver's single unmatched span
C1_Witness ==
    /\ OnWord(text, pos, ItWords)
    /\ get_cursor_bracket_selections(text, pos) # <<>>
    /\ Len(selections) = 1
    /\ selections[1].cls = Unmatched
    /\ selections = highlight_it_references(text, pos)

\* C2: no slot lets an exception reach its caller, whatever the text and the
\* offset: after every analysis and every reformat the pane holds a list of
\* spans and a text.
C2_NoErrorPropagates ==
    /\ propagated = FALSE
    /\ \A k \in 1..Len(selections) : IsSpan(selections[k])
    /\ \A k \in 1..Len(text) : text[k] \in STRING

\* a text of closing parentheses only, analysed at an offset inside it
C2_Witness ==
    /\ text # <<>>
    /\ \A k \in 1..Len(text) : text[k] = ")"
    /\ InRange(text, pos)
    /\ selections # <<>>
    /\ propagated = FALSE

\* C3: for an offset outside [0, len(text)] the analysis shows nothing, or what
\* it shows for the offset clamped into the range; no span starts below 0 or
\* ends above len(text).
C3_OutOfRangeOffset ==
    ~InRange(text, pos) =>
        /\ propagated = FALSE
        /\ \/ selections = <<>>
           \/ selections = highlight_matching_brackets(text, Clamp(text, pos)).sels
        /\ \A k \in 1..Len(selections) :
               selections[k].start >= 0 /\ selections[k].end <= Len(text)

\* a negative offset that Python's indexing maps onto a bracket of the text
C3_Witness ==
    /\ pos < 0
    /\ PyIndexOk(text, pos)
    /\ PyIndex(text, pos) \in BracketChars
    /\ selections = <<>>

KwSpan(kw, c) == Span(kw.start, kw.end, c)

\* the keyword occurrence the cursor is on
AnchorIndex(K, p) == CHOOSE j \in 1..Len(K) : K[j].start <= p /\ p <= K[j].end

\* `if X then Y else Z`: the three keywords are the only ones, and X, Y and Z
\* have balanced, well-nested parentheses
IteForm(s) ==
    LET K == keywords(s)
    IN  /\ Len(K) = 3
        /\ K[1].word = W_if /\ K[1].start = 0
        /\ K[2].word = W_then
        /\ K[3].word = W_else
        /\ WellNested(Slice(s, K[1].end, K[2].start))
        /\ WellNested(Slice(s, K[2].end, K[3].start))
        /\ WellNested(Slice(s, K[3].end, Len(s)))

\* C4: in `if X then Y else Z` without nesting, the keyword-block matcher
\* returns the same three matched spans (the three keywords) from a cursor on
\* the if, on the then and on the else.
C4_CompleteGroupFromEachKeyword ==
    (IteForm(text) /\ OnWord(text, pos, KwWords)) =>
        LET K == keywords(text)
        IN  highlight_if_then_else(text, pos)
                = << KwSpan(K[1], Matched), KwSpan(K[2], Matched), KwSpan(K[3], Matched) >>

\* the cursor is on the else of a group whose condition holds a parenthesis
C4_Witness ==
    /\ IteForm(text)
    /\ LET K == keywords(text)
       IN  /\ K[3].start <= pos
           /\ pos <= K[3].end
           /\ StrContainsChar(Slice(text, K[1].end, K[2].start), "(")
           /\ selections
                = << KwSpan(K[1], Matched), KwSpan(K[2], Matched), KwSpan(K[3], Matched) >>

\* `if A then (if B then C else D) else E`, A..E without keywords or parentheses
NestedForm(s) ==
    LET K == keywords(s)
    IN  /\ Len(K) = 6
        /\ <<K[1].word, K[2].word, K[3].word, K[4].word, K[5].word, K[6].word>>
               = <<W_if, W_then, W_if, W_then, W_else, W_else>>
        /\ K[1].start = 0
        /\ \A i \in 0..(Len(s) - 1) :
               /\ s[i + 1] = "(" <=> i = K[3].start - 1
               /\ s[i + 1] = ")" => (K[5].end <= i /\ i < K[6].start)
        /\ \E i \in K[5].end..(K[6].start - 1) : s[i + 1] = ")"

\* the group of the j-th keyword: the outer group is keywords 1, 2 and 6
NestedGroup(K, j) ==
    IF j \in {1, 2, 6}
    THEN << KwSpan(K[1], Matched), KwSpan(K[2], Matched), KwSpan(K[6], Matched) >>
    ELSE << KwSpan(K[3], Matched), KwSpan(K[4], Matched), KwSpan(K[5], Matched) >>

\* C5: in `if A then (if B then C else D) else E` an anchor on any of the six
\* keywords yields exactly the three keywords of its own group, all matched.
C5_NestedGroups ==
    (NestedForm(text) /\ OnWord(text, pos, KwWords)) =>
        LET K == keywords(text)
        IN  highlight_if_then_else(text, pos) = NestedGroup(K, AnchorIndex(K, pos))

\* the cursor is on the outer else and the pane shows the outer group
C5_Witness ==
    /\ NestedForm(text)
    /\ LET K == keywords(text)
       IN  /\ K[6].start <= pos
           /\ pos <= K[6].end
           /\ selections = NestedGroup(K, 6)

WordRank(w) == IF w = W_if THEN 1 ELSE IF w = W_then THEN 2 ELSE 3

\* the keyword occurrence a span covers
SpanKeyword(K, x) == CHOOSE j \in 1..Len(K) : K[j].start = x.start /\ K[j].end = x.end

\* C6: with the cursor on a whole-word if/then/else the keyword-block matcher
\* returns 1 to 3 spans, each the exact bounds of a keyword, at most one per
\* word, the anchor among them; all are matched when there are three and all
\* are unmatched otherwise.
C6_KeywordSpans ==
    OnWord(text, pos, KwWords) =>
        LET K == keywords(text)
            R == highlight_if_then_else(text, pos)
            a == K[AnchorIndex(K, pos)]
        IN  /\ 1 <= Len(R) /\ Len(R) <= 3
            /\ \E k \in 1..Len(R) : R[k].start = a.start /\ R[k].end = a.end
            /\ \A k \in 1..Len(R) :
                   \E j \in 1..Len(K) : K[j].start = R[k].start /\ K[j].end = R[k].end
            /\ \A k \in 1..Len(R) : \A l \in 1..Len(R) :
                   k < l => WordRank(K[SpanKeyword(K, R[k])].word)
                                < WordRank(K[SpanKeyword(K, R[l])].word)
            /\ \A k \in 1..Len(R) :
                   R[k].cls = IF Len(R) = 3 THEN Matched ELSE Unmatched

\* an incomplete group: two keywords found, both shown unmatched
C6_Witness ==
    /\ OnWord(text, pos, KwWords)
    /\ Len(selections) = 2
    /\ selections[1].cls = Unmatched
    /\ selections[2].cls = Unmatched
    /\ selections = highlight_if_then_else(text, pos)

OpenChars == {"(", "[", "{"}
CloseChars == {")", "]", "}"}

CloserOf(c) == IF c = "(" THEN ")" ELSE IF c = "[" THEN "]" ELSE "}"
OpenerOf(c) == IF c = ")" THEN "(" ELSE IF c = "]" THEN "[" ELSE "{"

\* offsets of the bracket characters of s
BracketOffsets(s) == {i \in 0..(Len(s) - 1) : s[i + 1] \in BracketChars}

\* s holds exactly one bracket pair: an opener at p, its closer at q > p, and
\* no other bracket character
OnePair(s, p, q) ==
    /\ BracketOffsets(s) = {p, q}
    /\ p < q
    /\ s[p + 1] \in OpenChars
    /\ s[q + 1] = CloserOf(s[p + 1])

SpanSet(R) == {R[k] : k \in 1..Len(R)}

\* C7: in a text with exactly one bracket pair the bracket matcher returns the
\* same two matched length-1 spans, the opener and the closer, from a cursor at
\* or just after the opener and from a cursor at or just after the closer.
C7_PairFromEitherSide ==
    \A p \in 0..(Len(text) - 1) : \A q \in 0..(Len(text) - 1) :
        (OnePair(text, p, q) /\ pos \in {p, p + 1, q, q + 1}) =>
            LET R == get_cursor_bracket_selections(text, pos)
            IN  /\ Len(R) = 2
                /\ SpanSet(R) = {Span(p, p + 1, Matched), Span(q, q + 1, Matched)}

\* C8: in a text with an opener at p and no closing bracket character at all,
\* the bracket matcher returns the single unmatched span [p, p+1) with the
\* cursor at p + 1, and with the cursor at p when the opener at p is the
\* bracket under consideration (no bracket just before the cursor).
C8_UnmatchedOpener ==
    \A p \in 0..(Len(text) - 1) :
        ( /\ text[p + 1] \in OpenChars
          /\ \A i \in 1..Len(text) : text[i] \notin CloseChars
          /\ \/ pos = p + 1
             \/ pos = p /\ (p = 0 \/ text[p] \notin BracketChars) ) =>
            get_cursor_bracket_selections(text, pos) = << Span(p, p + 1, Unmatched) >>

\* the bracket the selection rule names: the character before the cursor when
\* it is a bracket, else the character at the cursor when it is one, else none
SelectedBracket(s, p) ==
    IF p > 0 /\ s[p] \in BracketChars THEN <<p - 1>>
    ELSE IF p < Len(s) /\ s[p + 1] \in BracketChars THEN <<p>>
    ELSE <<>>

\* C9: the bracket matcher reports on the bracket just before the cursor; only
\* when that character is no bracket, on the bracket at the cursor; and it
\* returns no span when neither is a bracket.
C9_BeforeThenAt ==
    InRange(text, pos) =>
        LET R == get_cursor_bracket_selections(text, pos)
            b == SelectedBracket(text, pos)
        IN  IF b = <<>> THEN R = <<>>
            ELSE R # <<>> /\ R[1].start = b[1] /\ R[1].end = b[1] + 1

\* number of offsets in a..b that hold character c
CountIn(s, a, b, c) == Cardinality({i \in a..b : s[i + 1] = c})

\* the partner of the bracket at p: for an opener the nearest q > p where the
\* closers in (p, q] outnumber the openers of that kind by one; for a closer
\* the mirror image; None when there is none
PartnerOf(s, p) ==
    LET c == s[p + 1]
        fwd == {q \in (p + 1)..(Len(s) - 1) :
                   CountIn(s, p + 1, q, CloserOf(c)) = CountIn(s, p + 1, q, c) + 1}
        bwd == {q \in 0..(p - 1) :
                   CountIn(s, q, p - 1, OpenerOf(c)) = CountIn(s, q, p - 1, c) + 1}
    IN  IF c \in OpenChars
        THEN IF fwd = {} THEN <<>> ELSE <<CHOOSE q \in fwd : \A r \in fwd : q <= r>>
        ELSE IF bwd = {} THEN <<>> ELSE <<CHOOSE q \in bwd : \A r \in bwd : q >= r>>

\* C10: the bracket matcher returns nothing, or for the bracket it selected at
\* p (next to the cursor) exactly [p, p+1) and [q, q+1), both matched, when p
\* has a partner q, and exactly [p, p+1), unmatched, when it has none.
C10_TwoSpansOrOne ==
    InRange(text, pos) =>
        LET R == get_cursor_bracket_selections(text, pos)
        IN  R # <<>> =>
                LET p == R[1].start
                IN  /\ p \in BracketOffsets(text)
                    /\ p \in {pos - 1, pos}
                    /\ LET q == PartnerOf(text, p)
                       IN  IF q # <<>>
                           THEN R = << Span(p, p + 1, Matched), Span(q[1], q[1] + 1, Matched) >>
                           ELSE R = << Span(p, p + 1, Unmatched) >>

\* the cursor is just after a closer whose opener lies behind a nested pair
C10_Witness ==
    /\ Len(selections) = 2
    /\ pos > 0
    /\ selections[1] = Span(pos - 1, pos, Matched)
    /\ selections[2].end < pos - 2
    /\ text[pos] \in CloseChars
    /\ selections = get_cursor_bracket_selections(text, pos)

\* s with the bracket characters of the kinds other than c's replaced by a letter
OnlyKind(s, c) ==
    LET kind == IF c \in OpenChars THEN {c, CloserOf(c)} ELSE {c, OpenerOf(c)}
    IN  [k \in 1..Len(s) |-> IF s[k] \in BracketChars \ kind THEN "a" ELSE s[k]]

\* C11: find_matching_bracket for an opener of kind k at p returns the smallest
\* q > p where the k-closers in text[p+1..q] number one more than the k-openers
\* there, and none when there is no such q; symmetrically backward for a
\* closer.  The partner is the closer (opener) of the same kind, and the
\* brackets of the other two kinds never change the result.
C11_MatchingBracket ==
    \A p \in BracketOffsets(text) :
        LET c == text[p + 1]
            m == find_matching_bracket(text, p, c)
        IN  /\ m = PartnerOf(text, p)
            /\ m # <<>> =>
                   /\ IF c \in OpenChars THEN m[1] > p ELSE m[1] < p
                   /\ text[m[1] + 1] = (IF c \in OpenChars THEN CloserOf(c) ELSE OpenerOf(c))
            /\ m = find_matching_bracket(OnlyKind(text, c), p, c)

\* the cursor is just after a closer whose opener was found across a bracket
\* of another kind
C11_Witness ==
    /\ Len(selections) = 2
    /\ pos > 0
    /\ text[pos] \in CloseChars
    /\ selections[1] = Span(pos - 1, pos, Matched)
    /\ selections[2].cls = Matched
    /\ \E i \in (selections[2].end + 1)..(pos - 1) :
           text[i] \in BracketChars \ {text[pos], OpenerOf(text[pos])}
    /\ selections[2].start = find_matching_bracket(text, pos - 1, text[pos])[1]

BlankChars == {" ", "\t", "\n"}

WordEnders == BlankChars \cup {"(", ")", "[", "]", "{", "}", ",", ":", ";"}

\* the end of the text before offset ws once the whitespace just before ws is
\* skipped
SkipBlanksBefore(s, ws) ==
    CHOOSE e \in 0..ws :
        /\ e = 0 \/ s[e] \notin BlankChars
        /\ \A j \in (e + 1)..ws : s[j] \in BlankChars

\* the start of the word that ends at e: extended backward until a word ender
\* or the start of the text
WordStartBefore(s, e) ==
    CHOOSE w \in 0..e :
        /\ w = 0 \/ s[w] \in WordEnders
        /\ \A j \in (w + 1)..e : s[j] \notin WordEnders

\* the `whose (` clause that find_whose_context takes a pronoun at it_pos to
\* be inside, or None
ClauseOf(s, it_pos) == containing_whose(s, it_pos, whose_matches(s), 1)

\* the offsets where an it/its/them occurrence of s starts
PronounStarts(s) == {it_keywords(s)[k].start : k \in 1..Len(it_keywords(s))}

\* C12: for a pronoun inside a `whose (` clause the Pattern A referent is read
\* off the text just before that `whose`, whitespace skipped: when it ends in
\* ')' the referent is the span from the matching '(' through that ')';
\* otherwise it is the single preceding word, extended backward until
\* whitespace, one of ( ) [ ] { } , : ; or the start of the text.  In
\* `names of files whose (it contains ".txt")` the cursor on `it` gives the
\* span of `files`.
C12_WhoseReferent ==
    /\ \A it_pos \in PronounStarts(text) :
           ClauseOf(text, it_pos) # <<>> =>
               LET e == SkipBlanksBefore(text, ClauseOf(text, it_pos)[1].start)
                   A == find_whose_context(text, it_pos)
               IN  /\ (e > 0 /\ text[e] = ")" /\ PartnerOf(text, e - 1) # <<>>) =>
                          A = <<[start |-> PartnerOf(text, e - 1)[1], end |-> e]>>
                   /\ (e > 0 /\ text[e] # ")" /\ WordStartBefore(text, e) < e) =>
                          A = <<[start |-> WordStartBefore(text, e), end |-> e]>>
    /\ (text = WhoseDoc /\ pos \in 22..24) =>
           /\ Slice(text, 9, 14) = <<"f", "i", "l", "e", "s">>
           /\ selections = << Span(22, 24, Matched), Span(9, 14, Matched) >>

\* the cursor is on a pronoun inside a whose clause whose referent is a
\* parenthesized expression that holds a nested pair
C12_Witness ==
    /\ Len(selections) = 2
    /\ selections[2].cls = Matched
    /\ ClauseOf(text, selections[1].start) # <<>>
    /\ text[selections[2].start + 1] = "("
    /\ text[selections[2].end] = ")"
    /\ \E i \in (selections[2].start + 2)..(selections[2].end - 1) : text[i] = "("
    /\ selections = highlight_it_references(text, pos)

\* the end of s[0..i) once its trailing whitespace is removed
TrimmedEnd(s, i) ==
    CHOOSE b \in 0..i :
        /\ b = 0 \/ ~IsSpace(s[b])
        /\ \A j \in (b + 1)..i : IsSpace(s[j])

\* the first offset from i on that holds no whitespace (the end of s if none)
FirstNonSpace(s, i) ==
    CHOOSE j \in i..Len(s) :
        /\ j = Len(s) \/ ~IsSpace(s[j + 1])
        /\ \A k \in i..(j - 1) : IsSpace(s[k + 1])

\* the offsets of the '(' that enclose offset p: not closed again before p
Enclosers(s, p) ==
    {i \in 0..(p - 1) : /\ s[i + 1] = "("
                        /\ \A j \in (i + 1)..(p - 1) :
                               CountIn(s, i + 1, j, ")") <= CountIn(s, i + 1, j, "(")}

\* the first offset from os on that holds a newline or a ')' at the depth of
\* os (the end of s if none)
ObjectStop(s, os) ==
    CHOOSE j \in os..Len(s) :
        LET Stops(k) == \/ s[k + 1] = "\n"
                        \/ /\ s[k + 1] = ")"
                           /\ CountIn(s, os, k - 1, "(") = CountIn(s, os, k - 1, ")")
        IN  /\ j = Len(s) \/ Stops(j)
            /\ \A k \in os..(j - 1) : ~Stops(k)

\* e moved back over the spaces and tabs that end s[os..e)
TrimmedObjectEnd(s, os, e) ==
    CHOOSE t \in os..e :
        /\ t = os \/ s[t] \notin {" ", "\t"}
        /\ \A j \in (t + 1)..e : s[j] \in {" ", "\t"}

\* C13: Pattern B yields a referent for a pronoun only if the text before the
\* pronoun, trailing whitespace removed, ends in `of`, an enclosing '(' of the
\* pronoun exists and has a matching ')', and the text after that ')', leading
\* whitespace removed, starts with `of `.  The referent then runs from the
\* first non-whitespace character after that `of` up to the first newline, the
\* end of the text or a ')' at the same depth, trailing spaces and tabs
\* removed, and there is no referent when that span is empty.
C13_OfItReferent ==
    \A it_pos \in PronounStarts(text) :
        LET B == find_of_it_context(text, it_pos)
            b == TrimmedEnd(text, it_pos)
        IN  B # <<>> =>
                /\ b >= 2
                /\ <<Lower(text[b - 1]), Lower(text[b])>> = W_of
                /\ Enclosers(text, it_pos) # {}
                /\ LET ps == CHOOSE i \in Enclosers(text, it_pos) :
                                 \A j \in Enclosers(text, it_pos) : j <= i
                       pe == PartnerOf(text, ps)
                   IN  /\ pe # <<>>
                       /\ LET after == FirstNonSpace(text, pe[1] + 1)
                              os == FirstNonSpace(text, after + 2)
                              oe == TrimmedObjectEnd(text, os, ObjectStop(text, os))
                          IN  /\ after + 3 <= Len(text)
                              /\ <<Lower(text[after + 1]), Lower(text[after + 2])>> = W_of
                              /\ text[after + 3] = " "
                              /\ oe > os
                              /\ B = <<[start |-> os, end |-> oe]>>

\* the cursor is on a pronoun that only Pattern B resolves, to an object that
\* holds a parenthesized part and ends at a ')' of its own depth
C13_Witness ==
    /\ Len(selections) >= 2
    /\ selections[2].cls = Matched
    /\ find_whose_context(text, selections[1].start) = <<>>
    /\ find_of_it_context(text, selections[1].start)
           = <<[start |-> selections[2].start, end |-> selections[2].end]>>
    /\ selections[2].end < Len(text)
    /\ text[selections[2].end + 1] = ")"
    /\ \E i \in (selections[2].start + 1)..selections[2].end : text[i] = ")"
    /\ selections = highlight_it_references(text, pos)

\* the first it/its/them occurrence the cursor offset p is on, or None
AnchorPronoun(s, p) == KeywordAtCursor(it_keywords(s), p, 1)

\* C14: the referent of a pronoun is Pattern A's result whenever Pattern A
\* yields a span, and Pattern B's result only when Pattern A yields nothing;
\* when neither yields a span the referent resolver returns exactly one span,
\* the anchor pronoun's [start, end), unmatched (as for the text `it`).
C14_WhoseBeforeOfIt ==
    /\ \A k \in 1..Len(it_keywords(text)) :
           LET kw == it_keywords(text)[k]
               A == find_whose_context(text, kw.start)
               B == find_of_it_context(text, kw.start)
           IN  find_it_referent(text, kw) = (IF A # <<>> THEN A ELSE B)
    /\ LET anchor == AnchorPronoun(text, pos)
       IN  (/\ anchor # <<>>
            /\ find_whose_context(text, anchor[1].start) = <<>>
            /\ find_of_it_context(text, anchor[1].start) = <<>>) =>
               /\ highlight_it_references(text, pos)
                      = << Span(anchor[1].start, anchor[1].end, Unmatched) >>
               /\ selections = highlight_it_references(text, pos)
    /\ (text = W_it /\ pos \in 0..2) => selections = << Span(0, 2, Unmatched) >>

\* the cursor is on a pronoun that both patterns resolve, to different spans,
\* and the pane shows Pattern A's
C14_Witness ==
    /\ AnchorPronoun(text, pos) # <<>>
    /\ find_whose_context(text, AnchorPronoun(text, pos)[1].start) # <<>>
    /\ find_of_it_context(text, AnchorPronoun(text, pos)[1].start) # <<>>
    /\ find_whose_context(text, AnchorPronoun(text, pos)[1].start)
           # find_of_it_context(text, AnchorPronoun(text, pos)[1].start)
    /\ Len(selections) >= 2
    /\ <<[start |-> selections[2].start, end |-> selections[2].end]>>
           = find_whose_context(text, AnchorPronoun(text, pos)[1].start)

\* the it/its/them occurrences of s other than kw whose own referent is R
Siblings(s, kw, R) ==
    {it_keywords(s)[k] : k \in {j \in 1..Len(it_keywords(s)) :
        /\ it_keywords(s)[j].start # kw.start
        /\ find_it_referent(s, it_keywords(s)[j]) = R}}

\* C15: when the anchor pronoun has a referent R the referent resolver returns
\* exactly one matched span for the anchor, one matched span for R and one
\* matched span for every other it/its/them occurrence whose own referent has
\* the start and end of R, and none for a pronoun whose referent differs or is
\* absent.  In `(name of it, version of it) of operating system`, from either
\* `it`, that is both `it` spans and the span of `operating system`.
C15_SiblingPronouns ==
    /\ LET anchor == AnchorPronoun(text, pos)
       IN  (anchor # <<>> /\ find_it_referent(text, anchor[1]) # <<>>) =>
               LET R == find_it_referent(text, anchor[1])
                   sel == highlight_it_references(text, pos)
                   sib == Siblings(text, anchor[1], R)
               IN  /\ selections = sel
                   /\ Len(sel) = 2 + Cardinality(sib)
                   /\ sel[1] = Span(anchor[1].start, anchor[1].end, Matched)
                   /\ sel[2] = Span(R[1].start, R[1].end, Matched)
                   /\ {sel[k] : k \in 3..Len(sel)} = {Span(kw.start, kw.end, Matched) : kw \in sib}
    /\ (text = OfItDoc /\ (pos \in 9..11 \/ pos \in 24..26)) =>
           /\ Slice(text, 31, 47)
                  = <<"o", "p", "e", "r", "a", "t", "i", "n", "g", " ", "s", "y", "s", "t", "e", "m">>
           /\ Len(selections) = 3
           /\ SpanSet(selections)
                  = {Span(9, 11, Matched), Span(24, 26, Matched), Span(31, 47, Matched)}

\* the cursor is on a pronoun with a referent, next to one pronoun that shares
\* the referent and is reported and one that does not and is not
C15_Witness ==
    /\ AnchorPronoun(text, pos) # <<>>
    /\ Len(selections) = 3
    /\ selections[3].cls = Matched
    /\ Len(it_keywords(text)) = 3
    /\ selections = highlight_it_references(text, pos)

\* all spans of the list R carry one classification
OneClass(R) == \A i \in 1..Len(R) : \A j \in 1..Len(R) : R[i].cls = R[j].cls

\* C16: the spans one analysis call returns all carry the same
\* classification: no call returns a matched span together with an unmatched
\* one, whichever of the three matchers produced the result.
C16_OneClassification ==
    /\ OneClass(selections)
    /\ InRange(text, pos) =>
           /\ OneClass(highlight_it_references(text, pos))
           /\ OneClass(highlight_if_then_else(text, pos))
           /\ OneClass(get_cursor_bracket_selections(text, pos))

\* the cursor is on the `then` of a group without else: two spans, both
\* unmatched
C16_Witness ==
    /\ Len(selections) = 2
    /\ selections[1].cls = Unmatched
    /\ selections[2].cls = Unmatched
    /\ selections[2].start <= pos
    /\ Lower(text[selections[2].start + 1]) = "t"
    /\ selections = highlight_matching_brackets(text, pos).sels

RECURSIVE SkipWord(_, _)
SkipWord(s, i) == IF i < Len(s) /\ ~IsSpace(s[i + 1]) THEN SkipWord(s, i + 1) ELSE i

\* the blank-separated words of s from offset i on
RECURSIVE WordsFrom(_, _)
WordsFrom(s, i) ==
    LET b == SkipSpaceForward(s, i)
    IN  IF b >= Len(s) THEN <<>>
        ELSE <<Slice(s, b, SkipWord(s, b))>> \o WordsFrom(s, SkipWord(s, b))

IsDelimiter(t) == t \in {<<"(">>, <<")">>} \/ LowerStr(t) \in {W_if, W_then, W_else}

\* the non-blank tokens of s: parentheses, keywords and the words of text runs
RECURSIVE TokenWordsOf(_, _)
TokenWordsOf(tokens, k) ==
    IF k > Len(tokens) THEN <<>>
    ELSE (IF IsDelimiter(tokens[k]) THEN <<tokens[k]>> ELSE WordsFrom(tokens[k], 0))
             \o TokenWordsOf(tokens, k + 1)

TokenWords(s) == TokenWordsOf(_tokenize_for_pretty_print(s), 1)

NoBlanks(s) == SelectSeq(s, LAMBDA c : ~IsSpace(c))

SingleLine(s) == ~StrContainsChar(s, "\n")

\* C17: for a single-line text s, compacting the expansion of s gives the
\* same sequence of non-blank tokens (parentheses, if/then/else keywords and
\* the words of text runs) as compacting s: the two texts differ in blanks
\* only, no token is dropped, duplicated, reordered, split or merged.
C17_ExpandKeepsTokens ==
    SingleLine(text) =>
        /\ \A s \in {text, Strip(text)} :
               LET back == single_line(pretty_print_relevance(s))
               IN  /\ TokenWords(back) = TokenWords(single_line(s))
                   /\ NoBlanks(back) = NoBlanks(single_line(s))
        /\ Strip(text) # <<>> => formatted_text(text) = <<pretty_print_relevance(Strip(text))>>

\* the pane holds the compaction of an expansion: a single line of at least
\* three tokens, a parenthesis among them, whose expansion has several lines
\* and compacts back to it
C17_Witness ==
    /\ is_dirty
    /\ SingleLine(text)
    /\ StrContainsChar(text, "(")
    /\ Len(TokenWords(text)) >= 3
    /\ ~SingleLine(pretty_print_relevance(text))
    /\ single_line(pretty_print_relevance(text)) = text

NoAdjacentBlanks(s) == \A k \in 1..(Len(s) - 1) : ~(IsSpace(s[k]) /\ IsSpace(s[k + 1]))

Trimmed(s) == s = <<>> \/ (~IsSpace(s[1]) /\ ~IsSpace(s[Len(s)]))

\* C18: compact is idempotent, compact(compact(s)) = compact(s) for every
\* text s; compact(s) is s with every run of blanks collapsed to one space and
\* both ends trimmed, so it holds no newline and no two adjacent blanks.
C18_CompactIdempotent ==
    LET c == single_line(text)
    IN  /\ single_line(c) = c
        /\ SingleLine(c)
        /\ NoAdjacentBlanks(c)
        /\ Trimmed(c)
        /\ \A k \in 1..Len(c) : IsSpace(c[k]) => c[k] = " "
        /\ WordsFrom(c, 0) = WordsFrom(text, 0)
        /\ Len(c) = Len(NoBlanks(text))
                      + (IF WordsFrom(text, 0) = <<>> THEN 0 ELSE Len(WordsFrom(text, 0)) - 1)
        /\ ~SingleLine(Strip(text)) => formatted_text(text) = <<c>>

\* a multi-line text with a run of several blanks inside and blanks at both
\* ends, which Expand/Compact compacts
C18_Witness ==
    /\ ~SingleLine(Strip(text))
    /\ ~NoAdjacentBlanks(Strip(text))
    /\ IsSpace(text[1])
    /\ IsSpace(text[Len(text)])
    /\ formatted_text(text) = <<single_line(text)>>
    /\ Len(WordsFrom(text, 0)) >= 3

\* the offset at which token k of the list begins
RECURSIVE TokenStart(_, _)
TokenStart(tokens, k) == IF k <= 1 THEN 0 ELSE TokenStart(tokens, k - 1) + Len(tokens[k - 1])

IsKeywordText(t) == LowerStr(t) \in {W_if, W_then, W_else}

\* C19: the tokens of a text, concatenated in order, are the text exactly (no
\* gap, no overlap, no empty token); every '(' and every ')' is a token of
\* length 1 on its own; a token that is if, then or else in any letter case
\* is a whole-word occurrence, never those letters inside a longer word.
C19_TokensPartition ==
    LET tokens == _tokenize_for_pretty_print(text)
    IN  /\ Flatten(tokens) = text
        /\ \A k \in 1..Len(tokens) : tokens[k] # <<>>
        /\ \A k \in 1..Len(tokens) :
               (StrContainsChar(tokens[k], "(") \/ StrContainsChar(tokens[k], ")"))
                   => Len(tokens[k]) = 1
        /\ \A i \in 0..(Len(text) - 1) :
               text[i + 1] \in {"(", ")"} =>
                   \E k \in 1..Len(tokens) :
                       TokenStart(tokens, k) = i /\ tokens[k] = <<text[i + 1]>>
        /\ \A k \in 1..Len(tokens) :
               IsKeywordText(tokens[k]) =>
                   LET b == TokenStart(tokens, k)
                       e == b + Len(tokens[k])
                   IN  /\ b = 0 \/ ~IsWordChar(text[b])
                       /\ e = Len(text) \/ ~IsWordChar(text[e + 1])

\* a text with a keyword's letters inside a longer word, a whole-word keyword
\* and a parenthesis: the first stays inside a text run, the others are tokens
C19_Witness ==
    LET tokens == _tokenize_for_pretty_print(text)
    IN  /\ \E i \in 0..(Len(text) - 1) :
               /\ \E w \in {W_if, W_then, W_else} : LiteralAt(text, i, w)
               /\ \A k \in 1..Len(tokens) : TokenStart(tokens, k) # i
        /\ \E k \in 1..Len(tokens) : IsKeywordText(tokens[k])
        /\ \E k \in 1..Len(tokens) : tokens[k] = <<"(">>
        /\ is_dirty

\* the offsets from the anchor keyword a to the keyword k, in scan direction
OffsetsBetween(a, k) ==
    IF k.start > a.start THEN a.start..k.end ELSE k.start..a.start

\* the depth falls below the anchor's somewhere between the anchor a and k
DropsBetween(s, a, k) ==
    \E o \in OffsetsBetween(a, k) : get_paren_depth(s, o) < get_paren_depth(s, a.start)

\* C20: every non-anchor keyword the keyword-block matcher reports lies in
\* the anchor's enclosing parenthesis scope: at every offset between the
\* anchor and the reported keyword the parenthesis depth is not less than the
\* depth at the anchor; once the depth has dropped below the anchor's depth
\* in a direction, no keyword beyond that point in that direction is reported.
C20_WithinAnchorScope ==
    OnWord(text, pos, KwWords) =>
        LET K == keywords(text)
            R == highlight_if_then_else(text, pos)
            a == K[AnchorIndex(K, pos)]
            g == find_matching_if_then_else(text, K, a)
        IN  /\ \A j \in 1..Len(R) :
                   \A o \in (IF R[j].start > a.start THEN a.start..R[j].end
                             ELSE R[j].start..a.start) :
                       get_paren_depth(text, o) >= get_paren_depth(text, a.start)
            /\ \A j \in 1..Len(K) :
                   DropsBetween(text, a, K[j]) =>
                       /\ \A m \in 1..Len(R) : R[m].start # K[j].start
                       /\ <<K[j]>> \notin {g.if_pos, g.then_pos, g.else_pos}
            /\ selections = R

\* `if then)else` with the cursor on the if: the then is reported, the else
\* beyond the closing parenthesis is not
C20_Witness ==
    /\ OnWord(text, pos, KwWords)
    /\ Len(selections) = 2
    /\ selections = highlight_if_then_else(text, pos)
    /\ LET K == keywords(text)
           a == K[AnchorIndex(K, pos)]
       IN  /\ a.word = W_if
           /\ \E j \in 1..Len(K) :
                  /\ K[j].word = W_else
                  /\ K[j].start > selections[2].start
                  /\ DropsBetween(text, a, K[j])
                  /\ ~DropsBetween(text, a, [start |-> selections[2].start, end |-> selections[2].end])

\* the then that find_then_else_for_if reports for the if the cursor is on
PartnerThen(s, p) ==
    LET K == keywords(s)
        a == K[AnchorIndex(K, p)]
    IN  IF a.word = W_if THEN find_then_else_for_if(s, a, K).then_pos ELSE <<>>

Members(g) == {g.if_pos[k] : k \in 1..Len(g.if_pos)}
                  \cup {g.then_pos[k] : k \in 1..Len(g.then_pos)}
                  \cup {g.else_pos[k] : k \in 1..Len(g.else_pos)}

Complete(g) == g.if_pos # <<>> /\ g.then_pos # <<>> /\ g.else_pos # <<>>

\* C22: keyword-block matching is symmetric for every text, balanced or
\* not: when anchoring on one keyword yields a complete triple (if, then,
\* else), anchoring on each of the other two keywords of the triple yields the
\* same triple; and when anchoring on a keyword k reports a keyword k2 as a
\* member of its group, anchoring on k2 reports k.
C22_Symmetric ==
    OnWord(text, pos, KwWords) =>
        LET K == keywords(text)
            a == K[AnchorIndex(K, pos)]
            g == find_matching_if_then_else(text, K, a)
        IN  \A k2 \in Members(g) :
                /\ a \in Members(find_matching_if_then_else(text, K, k2))
                /\ Complete(g) => find_matching_if_then_else(text, K, k2) = g

\* the pronoun starting at it_pos counts as inside the `whose (` clause m
InsideClause(s, m, it_pos) ==
    LET closer == PartnerOf(s, m.end - 1)
    IN  \/ closer # <<>> /\ m.end <= it_pos /\ it_pos <= closer[1]
        \/ closer = <<>> /\ it_pos >= m.end

\* the indices of the `whose (` clauses the pronoun at it_pos is inside
ClausesAround(s, it_pos) ==
    {k \in 1..Len(whose_matches(s)) : InsideClause(s, whose_matches(s)[k], it_pos)}

\* C23: Pattern A takes a pronoun to be inside a `whose (` clause exactly
\* when the pronoun starts between the offset just after the clause's '(' and
\* the offset of its matching ')' (inclusive), or when that '(' has no
\* matching ')' and the pronoun starts at or after the offset just after it;
\* when several clauses qualify (nested clauses) the leftmost one supplies the
\* referent: the expression before its `whose`.
C23_LeftmostClause ==
    /\ \A it_pos \in PronounStarts(text) :
           LET Q == ClausesAround(text, it_pos)
           IN  /\ Q = {} <=> ClauseOf(text, it_pos) = <<>>
               /\ Q = {} => find_whose_context(text, it_pos) = <<>>
               /\ Q # {} =>
                      LET k == CHOOSE k \in Q : \A j \in Q : k <= j
                      IN  /\ ClauseOf(text, it_pos) = <<whose_matches(text)[k]>>
                          /\ find_whose_context(text, it_pos)
                                 = referent_before(text, <<whose_matches(text)[k]>>)
    /\ LET anchor == AnchorPronoun(text, pos)
       IN  (anchor # <<>> /\ find_whose_context(text, anchor[1].start) # <<>>) =>
               LET R == find_whose_context(text, anchor[1].start)
               IN  /\ Len(selections) >= 2
                   /\ selections[2] = Span(R[1].start, R[1].end, Matched)

\* the cursor is on a pronoun inside two nested `whose (` clauses whose
\* preceding expressions differ: the referent shown is the leftmost clause's
C23_Witness ==
    LET anchor == AnchorPronoun(text, pos)
    IN  /\ anchor # <<>>
        /\ Cardinality(ClausesAround(text, anchor[1].start)) >= 2
        /\ \E j \in ClausesAround(text, anchor[1].start) :
               /\ referent_before(text, <<whose_matches(text)[j]>>) # <<>>
               /\ referent_before(text, <<whose_matches(text)[j]>>)
                      # find_whose_context(text, anchor[1].start)
        /\ Len(selections) = 2
        /\ \A k \in ClausesAround(text, anchor[1].start) :
               selections[2].start < whose_matches(text)[k].start

\* the candidates a forward search examines, each with the running depth it
\* holds when the candidate is examined
RECURSIVE RunningForward(_, _, _, _, _, _)
RunningForward(s, after, k, lo, current_depth, start_depth) ==
    IF k > Len(after) THEN <<>>
    ELSE LET r == depth_forward(s, lo, after[k].start, current_depth, start_depth)
         IN  IF r.below THEN <<>>
             ELSE <<[kw |-> after[k], depth |-> r.depth]>>
                      \o RunningForward(s, after, k + 1, after[k].end, r.depth, start_depth)

\* the same for a backward search
RECURSIVE RunningBackward(_, _, _, _, _, _)
RunningBackward(s, before, k, prev_pos, current_depth, start_depth) ==
    IF k > Len(before) THEN <<>>
    ELSE LET r == depth_backward(s, prev_pos - 1, before[k].end, current_depth, start_depth)
         IN  IF r.depth < start_depth THEN <<>>
             ELSE <<[kw |-> before[k], depth |-> r.depth]>>
                      \o RunningBackward(s, before, k + 1, before[k].start, r.depth, start_depth)

FreshDepths(s, run) == \A k \in 1..Len(run) : run[k].depth = get_paren_depth(s, run[k].kw.start)

\* the candidate kw of anchor a is examined and counts, by fresh depths only
FreshStop(s, a, kw) == DropsBetween(s, a, kw)

FreshSkip(s, a, kw) == ~(get_paren_depth(s, kw.start) >= get_paren_depth(s, a.start))

\* find_then_else_for_if with a fresh get_paren_depth for every candidate
RECURSIVE then_else_fresh(_, _, _, _, _, _)
then_else_fresh(s, a, after, k, found_then, if_nesting) ==
    IF k > Len(after) \/ FreshStop(s, a, after[k]) THEN Group(<<a>>, found_then, <<>>)
    ELSE IF FreshSkip(s, a, after[k])
         THEN then_else_fresh(s, a, after, k + 1, found_then, if_nesting)
    ELSE IF after[k].word = W_if
         THEN then_else_fresh(s, a, after, k + 1, found_then, if_nesting + 1)
    ELSE IF after[k].word = W_then
         THEN then_else_fresh(s, a, after, k + 1,
                  IF if_nesting = 0 /\ found_then = <<>> THEN <<after[k]>> ELSE found_then,
                  if_nesting)
    ELSE IF if_nesting = 0 /\ found_then # <<>> THEN Group(<<a>>, found_then, <<after[k]>>)
    ELSE then_else_fresh(s, a, after, k + 1, found_then,
                         IF if_nesting > 0 THEN if_nesting - 1 ELSE if_nesting)

RECURSIVE if_for_then_fresh(_, _, _, _, _)
if_for_then_fresh(s, a, before, k, then_nesting) ==
    IF k > Len(before) \/ FreshStop(s, a, before[k]) THEN <<>>
    ELSE IF before[k].word = W_then
         THEN if_for_then_fresh(s, a, before, k + 1, then_nesting + 1)
    ELSE IF before[k].word = W_if
         THEN IF then_nesting = 0 THEN <<before[k]>>
              ELSE if_for_then_fresh(s, a, before, k + 1, then_nesting - 1)
    ELSE if_for_then_fresh(s, a, before, k + 1, then_nesting)

RECURSIVE else_for_then_fresh(_, _, _, _, _)
else_for_then_fresh(s, a, after, k, if_nesting) ==
    IF k > Len(after) \/ FreshStop(s, a, after[k]) THEN <<>>
    ELSE IF FreshSkip(s, a, after[k]) THEN else_for_then_fresh(s, a, after, k + 1, if_nesting)
    ELSE IF after[k].word = W_if THEN else_for_then_fresh(s, a, after, k + 1, if_nesting + 1)
    ELSE IF after[k].word = W_else
         THEN IF if_nesting = 0 THEN <<after[k]>>
              ELSE else_for_then_fresh(s, a, after, k + 1, if_nesting - 1)
    ELSE else_for_then_fresh(s, a, after, k + 1, if_nesting)

RECURSIVE if_then_fresh(_, _, _, _, _, _)
if_then_fresh(s, a, before, k, else_nesting, found_then) ==
    IF k > Len(before) \/ FreshStop(s, a, before[k]) THEN Group(<<>>, found_then, <<a>>)
    ELSE IF before[k].word = W_else
         THEN if_then_fresh(s, a, before, k + 1, else_nesting + 1, found_then)
    ELSE IF before[k].word = W_then
         THEN if_then_fresh(s, a, before, k + 1, else_nesting,
                  IF else_nesting = 0 /\ found_then = <<>> THEN <<before[k]>> ELSE found_then)
    ELSE IF else_nesting = 0 /\ found_then # <<>> THEN Group(<<before[k]>>, found_then, <<a>>)
    ELSE if_then_fresh(s, a, before, k + 1,
                       IF else_nesting > 0 THEN else_nesting - 1 ELSE else_nesting, found_then)

\* the group of anchor a computed with fresh depths
FreshGroup(s, K, a) ==
    IF a.word = W_if THEN then_else_fresh(s, a, KeywordsAfter(K, a.start), 1, <<>>, 0)
    ELSE IF a.word = W_then
         THEN LET found_if == if_for_then_fresh(s, a, KeywordsBefore(K, a.start), 1, 0)
              IN  Group(found_if, <<a>>,
                        IF found_if # <<>>
                        THEN else_for_then_fresh(s, a, KeywordsAfter(K, a.start), 1, 0)
                        ELSE <<>>)
    ELSE if_then_fresh(s, a, KeywordsBefore(K, a.start), 1, 0, <<>>)

\* C24: in each of the three keyword-block searches the running depth held
\* when a candidate keyword is examined equals get_paren_depth(text,
\* candidate.start), the number of '(' minus the number of ')' before the
\* candidate; computing the depth afresh for every candidate gives the same
\* group.
C24_RunningDepthIsFresh ==
    OnWord(text, pos, KwWords) =>
        LET K == keywords(text)
            a == K[AnchorIndex(K, pos)]
            sd == get_paren_depth(text, a.start)
            after == KeywordsAfter(K, a.start)
            before == KeywordsBefore(K, a.start)
        IN  /\ sd = CountIn(text, 0, a.start - 1, "(") - CountIn(text, 0, a.start - 1, ")")
            /\ a.word = W_if => FreshDepths(text, RunningForward(text, after, 1, a.start, sd, sd))
            /\ a.word = W_then =>
                   /\ FreshDepths(text, RunningBackward(text, before, 1, a.start, sd, sd))
                   /\ FreshDepths(text, RunningForward(text, after, 1, a.end, sd, sd))
            /\ a.word = W_else =>
                   FreshDepths(text, RunningBackward(text, before, 1, a.start, sd, sd))
            /\ find_matching_if_then_else(text, K, a) = FreshGroup(text, K, a)

\* the cursor is on a `then` with a parenthesis between it and the `if`
\* before it and between it and the `else` after it: both candidates are
\* examined at a running depth other than the anchor's
C24_Witness ==
    /\ OnWord(text, pos, KwWords)
    /\ LET K == keywords(text)
           a == K[AnchorIndex(K, pos)]
           sd == get_paren_depth(text, a.start)
           back == RunningBackward(text, KeywordsBefore(K, a.start), 1, a.start, sd, sd)
           forth == RunningForward(text, KeywordsAfter(K, a.start), 1, a.end, sd, sd)
       IN  /\ a.word = W_then
           /\ \E k \in 1..Len(back) : back[k].depth > sd /\ back[k].kw.word = W_if
           /\ \E k \in 1..Len(forth) : forth[k].depth > sd /\ forth[k].kw.word = W_else
           /\ Len(selections) = 3

\* C25 as stated: the parenthesis depth computed for any text and any offset
\* in [0, len(text)] is never negative, also when closing parentheses
\* outnumber opening ones before the offset.
C25_DepthNonNegative ==
    \A o \in 0..Len(text) : get_paren_depth(text, o) >= 0

\* C25 amended: the parenthesis depth computed for any text and any offset in
\* [0, len(text)] is the number of '(' minus the number of ')' before the
\* offset, without a floor: it is negative exactly when closing parentheses
\* outnumber opening ones before the offset, and never negative otherwise.
C25_DepthSigned ==
    \A o \in 0..Len(text) :
        /\ get_paren_depth(text, o)
               = CountIn(text, 0, o - 1, "(") - CountIn(text, 0, o - 1, ")")
        /\ get_paren_depth(text, o) < 0
               <=> CountIn(text, 0, o - 1, ")") > CountIn(text, 0, o - 1, "(")

\* the cursor is on a keyword that more closing than opening parentheses
\* precede: the keyword matcher ran with a negative depth at its anchor
C25_Witness ==
    /\ OnWord(text, pos, KwWords)
    /\ LET K == keywords(text)
           a == K[AnchorIndex(K, pos)]
       IN  /\ get_paren_depth(text, a.start) < 0
           /\ \E k \in 1..Len(K) : K[k].start < a.start
    /\ Len(selections) >= 2

\* s.split('\n') of a non-empty s: the lines of s
RECURSIVE SplitLines(_, _, _)
SplitLines(s, i, line_start) ==
    IF i >= Len(s) THEN <<Slice(s, line_start, Len(s))>>
    ELSE IF s[i + 1] = "\n"
         THEN <<Slice(s, line_start, i)>> \o SplitLines(s, i + 1, i + 1)
    ELSE SplitLines(s, i + 1, line_start)

LinesOf(s) == IF s = <<>> THEN <<>> ELSE SplitLines(s, 0, 0)

\* the number of spaces a line begins with, and what follows them
RECURSIVE LeadingSpaces(_, _)
LeadingSpaces(line, i) ==
    IF i < Len(line) /\ line[i + 1] = " " THEN LeadingSpaces(line, i + 1) ELSE i

ContentOf(line) == Slice(line, LeadingSpaces(line, 0), Len(line))

IsParenLine(line) == ContentOf(line) \in {<<"(">>, <<")">>}

\* a clause: non-empty, no blank at either end, no parenthesis, and a keyword
\* only as its first word
IsClause(c) ==
    /\ c # <<>>
    /\ ~IsSpace(c[1]) /\ ~IsSpace(c[Len(c)])
    /\ ~StrContainsChar(c, "(") /\ ~StrContainsChar(c, ")")
    /\ \A i \in 1..(Len(c) - 1) : \A w \in KwWords : ~WholeWordAt(c, i, w)

\* the indent level in force after the first k lines
RECURSIVE LevelAfter(_, _)
LevelAfter(lines, k) ==
    IF k = 0 THEN 0
    ELSE IF ContentOf(lines[k]) = <<"(">> THEN LevelAfter(lines, k - 1) + 1
    ELSE IF ContentOf(lines[k]) = <<")">>
         THEN IF LevelAfter(lines, k - 1) > 0 THEN LevelAfter(lines, k - 1) - 1 ELSE 0
    ELSE LevelAfter(lines, k - 1)

\* the level at which line k is emitted
LevelOf(lines, k) ==
    IF ContentOf(lines[k]) = <<")">> THEN LevelAfter(lines, k) ELSE LevelAfter(lines, k - 1)

WellFormedLines(out) ==
    LET lines == LinesOf(out)
    IN  \A k \in 1..Len(lines) :
            /\ lines[k] # <<>>
            /\ ~IsSpace(lines[k][Len(lines[k])])
            /\ IsParenLine(lines[k]) \/ IsClause(ContentOf(lines[k]))
            /\ LeadingSpaces(lines[k], 0) = IndentWidth * LevelOf(lines, k)
            /\ LevelOf(lines, k) >= 0

\* the parenthesis lines of the output, in order
ParenLines(out) == SelectSeq(LinesOf(out), IsParenLine)

\* every closing parenthesis line is indented as its matching opening one
ClosersAligned(out) ==
    LET P == ParenLines(out)
        q == [k \in 1..Len(P) |-> ContentOf(P[k])[1]]
    IN  \A k \in 1..Len(P) :
            q[k] = ")" =>
                /\ PartnerOf(q, k - 1) # <<>>
                /\ LeadingSpaces(P[PartnerOf(q, k - 1)[1] + 1], 0) = LeadingSpaces(P[k], 0)

\* C26: in the output of expand every line is a '(' or a ')' alone, or a
\* non-empty clause without parenthesis that holds an if/then/else keyword
\* only as its first word; no line is empty or ends in a blank; each line is
\* indented by exactly 4 spaces times the level in force when it is emitted,
\* the level starting at 0, growing by 1 after each '(' and shrinking by 1,
\* floored at 0, before each ')' is emitted; the level is never negative and
\* for balanced input each ')' is indented as its matching '('.
C26_ExpandedLines ==
    /\ (is_dirty /\ ~SingleLine(text)) => WellFormedLines(text)
    /\ (SingleLine(Strip(text)) /\ Strip(text) # <<>>) =>
           LET out == pretty_print_relevance(Strip(text))
           IN  /\ formatted_text(text) = <<out>>
               /\ out # <<>>
               /\ WellFormedLines(out)
               /\ Len(ParenLines(out))
                      = Len(SelectSeq(text, LAMBDA c : c \in {"(", ")"}))
               /\ WellNestedFrom(text, 1, 0) => ClosersAligned(out)

\* the pane holds an expansion with a parenthesis pair, an indented clause
\* that begins with a keyword, and a clause after the closing parenthesis
C26_Witness ==
    /\ is_dirty
    /\ ~SingleLine(text)
    /\ LET lines == LinesOf(text)
       IN  /\ \E k \in 1..Len(lines) :
                  /\ LeadingSpaces(lines[k], 0) = IndentWidth
                  /\ \E w \in KwWords : WholeWordAt(ContentOf(lines[k]), 0, w)
                  /\ Len(ContentOf(lines[k])) > 4
           /\ \E k \in 2..(Len(lines) - 1) :
                  ContentOf(lines[k]) = <<")">> /\ LeadingSpaces(lines[k], 0) = 0

Disjoint(x, y) == x.end <= y.start \/ y.end <= x.start

\* C27: in every result of the referent resolver that contains a referent
\* the returned spans are pairwise disjoint, so the referent span overlaps
\* neither the anchor pronoun nor a sibling pronoun, and every returned span
\* satisfies 0 <= start < end <= len(text).
C27_DisjointSpans ==
    LET anchor == AnchorPronoun(text, pos)
    IN  (anchor # <<>> /\ find_it_referent(text, anchor[1]) # <<>>) =>
            LET R == highlight_it_references(text, pos)
            IN  /\ selections = R
                /\ Len(R) >= 2
                /\ \A i \in 1..Len(R) : \A j \in 1..Len(R) : i # j => Disjoint(R[i], R[j])
                /\ \A i \in 1..Len(R) :
                       0 <= R[i].start /\ R[i].start < R[i].end /\ R[i].end <= Len(text)

\* anchor, referent and a sibling are shown, and another pronoun of the text
\* that is not a sibling is left out
C27_Witness ==
    /\ AnchorPronoun(text, pos) # <<>>
    /\ Len(selections) >= 3
    /\ selections[2].cls = Matched
    /\ selections[2].end - selections[2].start >= 1
    /\ Len(it_keywords(text)) > Len(selections) - 2
    /\ \A i \in 1..Len(selections) : \A j \in 1..Len(selections) :
           i # j => Disjoint(selections[i], selections[j])

(***************************************************************************)
(* Evaluation                                                              *)
(***************************************************************************)
\* the event loop delivers the queued call at the head of the queue
Delivers == events # <<>> /\ Len(events') = Len(events) - 1

\* the delivered call changes the QnA pane or the output pane
Applies == Delivers /\ (doc' # doc \/ output_pane' # output_pane)

\* the worker of the delivered call is the one held, and in QnA mode its
\* query is the pending query whose line the result goes to
HeldForItsQuery(e) ==
    /\ e.live
    /\ worker = <<e.wid>>
    /\ threads[e.wid].mode = "qna" =>
        /\ current_query_index < Len(pending_queries)
        /\ pending_queries[current_query_index + 1].query = threads[e.wid].query
        /\ pending_queries[current_query_index + 1].line_num = current_line_num

\* C28: a result or an error is written to a pane only when the worker that
\* emitted it is the worker currently held, evaluating the query its result
\* is inserted for; the signals of a stopped or superseded worker never are
C28_OnlyHeldWorkerApplied == [][Applies => HeldForItsQuery(Head(events))]_vars

\* a signal of a stopped or superseded worker waits in the queue, ignored,
\* while a pane shows a result that was applied
C28_Witness ==
    /\ \E i \in DOMAIN events : ~events[i].live /\ worker # <<events[i].wid>>
    /\ \/ output_pane.kind \in {"finished", "error"}
       \/ \E i \in DOMAIN doc : IsResultLine(doc[i]) /\ doc[i].t # <<0>>

\* C29: whenever no evaluation worker is held the Evaluate button is enabled
\* and labelled "Evaluate", also after an evaluate() that stopped a running
\* worker and returned early
C29_ButtonReadyWhenIdle == worker = <<>> => evaluate_btn = ButtonReady

\* the lines of d that end at line L (0-based) are the query q: a Q: line
\* followed by its continuation lines
QueryEndsAt(d, L, q) ==
    /\ q # <<>>
    /\ L - Len(q) + 1 >= 0
    /\ L + 1 <= Len(d)
    /\ d[L - Len(q) + 2].k = "Q"
    /\ \A n \in 2..Len(q) : d[L - Len(q) + 1 + n].k = "C"
    /\ \A n \in 1..Len(q) : d[L - Len(q) + 1 + n].t = <<q[n]>>

\* the workers that run or whose signal is still to be delivered
Busy ==
    {w \in DOMAIN threads :
        threads[w].running \/ \E i \in DOMAIN events : events[i].wid = w /\ events[i].live}

\* the pending queries not yet answered, as indices into pending_queries
ToEvaluate == (current_query_index + 1)..Len(pending_queries)

\* only the held worker is busy, with the first query still to be evaluated
OneAtATime ==
    /\ Busy \subseteq {w \in DOMAIN threads : worker = <<w>>}
    /\ (worker # <<>> /\ threads[worker[1]].mode = "qna") =>
        /\ ToEvaluate # {}
        /\ threads[worker[1]].query = pending_queries[current_query_index + 1].query
        /\ current_line_num = pending_queries[current_query_index + 1].line_num

\* the list goes up the document
ReverseOrder ==
    \A i, j \in DOMAIN pending_queries :
        i < j => pending_queries[i].line_num > pending_queries[j].line_num

\* the recorded line of every query still to be evaluated is that query's last line
PendingLinesValid ==
    evaluating_tab = "qna" =>
        \A i \in ToEvaluate :
            QueryEndsAt(doc, pending_queries[i].line_num, pending_queries[i].query)

\* the last line before line i (1-based) that is no result line, 0 if none
RECURSIVE LineBefore(_, _)
LineBefore(d, i) ==
    IF i = 0 THEN 0 ELSE IF IsResultLine(d[i]) THEN LineBefore(d, i - 1) ELSE i

\* every result line of a run follows, with result lines only in between, the
\* last line of the query it answers
ResultsFollowOwnQuery ==
    \A i \in DOMAIN doc :
        (IsResultLine(doc[i]) /\ doc[i].t # <<0>>) =>
            QueryEndsAt(doc, LineBefore(doc, i) - 1, doc[i].t)

\* C30: without edits the queries of a QnA pane are evaluated one at a time
\* from the last to the first, the recorded line of every query still to be
\* evaluated stays that query's last line, and the result lines in the pane
\* directly follow the query they answer (so they precede the next query)
C30_ReverseOrderInsertion ==
    OneAtATime /\ ReverseOrder /\ PendingLinesValid /\ ResultsFollowOwnQuery

\* a run over two queries has ended and both have their result in the pane
C30_Witness ==
    /\ evaluating_tab = "qna"
    /\ worker = <<>>
    /\ Len(pending_queries) = 2
    /\ current_query_index = 2
    /\ \E i, j \in DOMAIN doc :
        /\ i < j
        /\ IsResultLine(doc[i]) /\ doc[i].t = pending_queries[2].query
        /\ IsResultLine(doc[j]) /\ doc[j].t = pending_queries[1].query
        /\ doc[i].t # doc[j].t

====
